---- MODULE Spec2Model ----
(***************************************************************************)
(* Agent execution and orchestration engine of the CollabLearn desktop     *)
(* agent: the Execution Registry (AgentManager), the session adapter       *)
(* (CopilotSdkAdapter.executeSdk), the one-shot child-process path and the *)
(* Phase Orchestrator, as a state machine.                                 *)
(*                                                                         *)
(* One step of the model is one turn of the JavaScript event loop: a       *)
(* handler together with every promise continuation it wakes.  The program *)
(* state is gathered in a record (State) and every handler is a function   *)
(* from that record to the record after the handler; Apply writes it back. *)
(***************************************************************************)
EXTENDS Integers, Sequences, FiniteSets, TLC

\* ------------------------------------------------------------- bounds
MaxTasks == 3      \* pending tasks returned by one fetch
MaxChunks == 2     \* data events (stdout/stderr/message) over a behaviour
MaxExec == 2       \* execution attempts over a behaviour
MaxClock == 1      \* values of Date.now() are 0..MaxClock
MaxRejected == 1   \* rejected executePhase calls that are counted
MaxRuns == 2       \* accepted executePhase calls over a behaviour
MaxTests == 1      \* agents:executeTest calls over a behaviour
MaxPushRuns == 1   \* accepted executePhase calls where pushes may fail
MaxPushFails == 1  \* rejected updateTaskStatus pushes over a behaviour

NULL == "null"
NoSubscription == 0    \* currentTaskSubscription / activeSession = null
NoProcessId == <<>>    \* currentProcessId = null
NoReason == <<>>       \* blockerReason = undefined
NoResult == [results |-> <<>>]   \* no PhaseResult returned

\* ------------------------------------------------------------- adapters
\* AgentManager's constructor registers these three adapters.
RegisteredAdapters == {"github-copilot-sdk", "github-copilot", "claude-code"}

\* adapter.executeSdk is defined by the SDK adapter only.
HasExecuteSdk(agentId) == agentId = "github-copilot-sdk"

\* <<agentId, projectPath>> values a caller of executePhase passes; the
\* projectPath is a string, or a value path.resolve() rejects.
RunInputs == {<<"github-copilot-sdk", "/project">>, <<"github-copilot", "/project">>,
              <<"github-copilot", "undefined">>, <<"unknown-agent", "/project">>}

\* CopilotAdapter.execute: path.resolve(options.cwd) throws synchronously on
\* a cwd that is not a string; otherwise spawn returns the child process.
ExecuteThrows(agentId, projectPath) ==
  agentId = "github-copilot" /\ projectPath = "undefined"

\* ------------------------------------------------------------- output text
\* An output text is a sequence of lines, a line a sequence of words.
ChunkOk == << <<"ok">> >>
ChunkBlocked == << <<"step", "done">>, <<"BLOCKED:", "missing", "API", "key">> >>
\* Texts of the assistant messages of a session.
Chunks == {ChunkOk, ChunkBlocked}
\* What a child process writes: <<stream, text>>.
ProcOutputs == {<<"stdout", ChunkBlocked>>, <<"stderr", ChunkOk>>}

ToLower(w) ==
  CASE w = "BLOCKED:" -> "blocked:"
    [] w = "Cannot" -> "cannot"
    [] w = "API" -> "api"
    [] OTHER -> w

\* BLOCKER_PATTERNS, in order: head is a run of adjacent words, tail a word
\* that follows anywhere later on the line (the ".*" patterns), ci the /i flag.
BLOCKER_PATTERNS ==
  << [head |-> <<"blocked:">>, tail |-> <<>>, ci |-> TRUE],
     [head |-> <<"no-entry-sign">>, tail |-> <<>>, ci |-> FALSE],
     [head |-> <<"cannot", "proceed">>, tail |-> <<>>, ci |-> TRUE],
     [head |-> <<"missing">>, tail |-> <<"required">>, ci |-> TRUE],
     [head |-> <<"waiting", "for">>, tail |-> <<"input">>, ci |-> TRUE],
     [head |-> <<"need">>, tail |-> <<"clarification">>, ci |-> TRUE],
     [head |-> <<"unable", "to", "continue">>, tail |-> <<>>, ci |-> TRUE],
     [head |-> <<"blocked", "by">>, tail |-> <<>>, ci |-> TRUE] >>

\* pattern.test(line): "." does not match a newline, so a match lies in one line.
PatternTest(p, line) ==
  LET w(k) == IF p.ci THEN ToLower(line[k]) ELSE line[k]
      n == Len(p.head)
  IN \E i \in 1..Len(line) :
       /\ i + n - 1 <= Len(line)
       /\ \A k \in 1..n : w(i + k - 1) = p.head[k]
       /\ \/ p.tail = <<>>
          \/ \E j \in (i + n)..Len(line) : w(j) = p.tail[1]

LineMatches(line) ==
  \E k \in 1..Len(BLOCKER_PATTERNS) : PatternTest(BLOCKER_PATTERNS[k], line)

detectBlocker(output) == \E l \in 1..Len(output) : LineMatches(output[l])

\* The text of a line is its words joined by single spaces, so an empty
\* word stands for one more space. line.trim(): the white space at both
\* ends is dropped.
RECURSIVE LineTrimStart(_)
LineTrimStart(line) ==
  IF line = <<>> \/ line[1] # "" THEN line ELSE LineTrimStart(Tail(line))
RECURSIVE LineTrimEnd(_)
LineTrimEnd(line) ==
  IF line = <<>> \/ line[Len(line)] # "" THEN line
  ELSE LineTrimEnd(SubSeq(line, 1, Len(line) - 1))
LineTrim(line) == LineTrimEnd(LineTrimStart(line))

RECURSIVE LineSlice(_, _)
\* text.slice(0, n) of a line: its first n characters.
LineSlice(line, n) ==
  IF line = <<>> THEN <<>>
  ELSE IF Len(line[1]) >= n THEN <<SubSeq(line[1], 1, n)>>
  ELSE IF Len(line) = 1 THEN line
  ELSE <<line[1]>> \o LineSlice(Tail(line), n - Len(line[1]) - 1)

ReasonMaxChars == 200

\* The first line of the output that matches a pattern, trimmed and cut.
extractBlockerReason(output) ==
  IF \E l \in 1..Len(output) : LineMatches(output[l])
  THEN LineSlice(LineTrim(output[CHOOSE l \in 1..Len(output) :
                                   /\ LineMatches(output[l])
                                   /\ \A m \in 1..(l - 1) : ~LineMatches(output[m])]),
                 ReasonMaxChars)
  ELSE <<"Task", "reported", "a", "blocker">>

\* ------------------------------------------------------------- events
Ev(type, data) == [type |-> type, data |-> data]
StatusStarted == Ev("status", << <<"Started">> >>)
StatusConnecting == Ev("status", << <<"Connecting">> >>)
StatusCreating == Ev("status", << <<"Creating", "session">> >>)
StatusStartingTask == Ev("status", << <<"Starting", "task">> >>)
EvComplete == Ev("complete", << <<"finished">> >>)
EvError == Ev("error", << <<"failure">> >>)
IsTerminal(ev) == ev.type \in {"complete", "error"}

\* ------------------------------------------------------------- tool output text
\* Texts of command output are sequences of character codes.
Min2(a, b) == IF a < b THEN a ELSE b
Max2(a, b) == IF a > b THEN a ELSE b

\* String.prototype.slice(start, end): a negative index counts from the end.
SliceIndex(len, k) == IF k < 0 THEN Max2(len + k, 0) ELSE Min2(k, len)
Slice(s, start, end) ==
  SubSeq(s, SliceIndex(Len(s), start) + 1, SliceIndex(Len(s), end))
SliceFrom(s, start) == Slice(s, start, Len(s))

RECURSIVE Digits(_)
\* The decimal digits of a number, as character codes.
Digits(n) == IF n < 10 THEN <<48 + n>> ELSE Digits(n \div 10) \o <<48 + (n % 10)>>

\* `\n...[truncated ${n} chars]...\n`
TruncationMarker(n) ==
  <<10, 46, 46, 46, 91, 116, 114, 117, 110, 99, 97, 116, 101, 100, 32>>
    \o Digits(n) \o <<32, 99, 104, 97, 114, 115, 93, 46, 46, 46, 10>>

\* truncateText joined from its head, tail and marker.
TruncatedText(input, head, tail) ==
  head \o TruncationMarker(Len(input) - Len(head) - Len(tail)) \o tail

\* truncateText that keeps maxChars characters at the end.
truncateTextLongTail(input, maxChars) ==
  IF Len(input) <= maxChars THEN input
  ELSE TruncatedText(input, Slice(input, 0, maxChars \div 2),
                     SliceFrom(input, -maxChars))

truncateText(input, maxChars) ==
  IF Len(input) <= maxChars THEN input
  ELSE TruncatedText(input, Slice(input, 0, maxChars \div 2),
                     SliceFrom(input, -(maxChars \div 2)))

\* stripAnsi: input.replace(/\x1b\[[0-9;]*m/g, ''). AnsiEnd is the index of the
\* final m of an escape sequence that starts at i, 0 when none starts there.
AnsiParam(c) == (c >= 48 /\ c <= 57) \/ c = 59
AnsiStop(s, i) ==
  IF \E j \in (i + 2)..Len(s) : ~AnsiParam(s[j])
  THEN CHOOSE j \in (i + 2)..Len(s) :
         /\ ~AnsiParam(s[j])
         /\ \A k \in (i + 2)..(j - 1) : AnsiParam(s[k])
  ELSE 0
AnsiEnd(s, i) ==
  IF i + 1 <= Len(s) /\ s[i] = 27 /\ s[i + 1] = 91
     /\ AnsiStop(s, i) # 0 /\ s[AnsiStop(s, i)] = 109
  THEN AnsiStop(s, i) ELSE 0

RECURSIVE StripAnsiFrom(_, _)
StripAnsiFrom(s, i) ==
  IF i > Len(s) THEN <<>>
  ELSE IF AnsiEnd(s, i) # 0 THEN StripAnsiFrom(s, AnsiEnd(s, i) + 1)
  ELSE <<s[i]>> \o StripAnsiFrom(s, i + 1)

stripAnsi(input) ==
  IF \A k \in 1..Len(input) : input[k] # 27 THEN input
  ELSE StripAnsiFrom(input, 1)

safeToolText(input, maxChars) == truncateText(stripAnsi(input), maxChars)
DefaultMaxChars == 20000
ErrorMaxChars == 8000

\* String.prototype.trim() for the white space of command output.
IsSpace(c) == c \in {9, 10, 11, 12, 13, 32}
Trim(s) ==
  IF \A k \in 1..Len(s) : IsSpace(s[k]) THEN <<>>
  ELSE SubSeq(s,
              CHOOSE a \in 1..Len(s) :
                ~IsSpace(s[a]) /\ \A k \in 1..(a - 1) : IsSpace(s[k]),
              CHOOSE b \in 1..Len(s) :
                ~IsSpace(s[b]) /\ \A k \in (b + 1)..Len(s) : IsSpace(s[k]))

\* ------------------------------------------------------------- paths and the file system
\* Path strings are sequences of one-character strings; a resolved path is
\* the sequence of its segments.
RECURSIVE SplitFrom(_, _, _, _)
\* String.prototype.split('/') without the empty segments.
SplitFrom(s, i, cur, acc) ==
  IF i > Len(s) THEN (IF cur = <<>> THEN acc ELSE Append(acc, cur))
  ELSE IF s[i] = "/"
  THEN SplitFrom(s, i + 1, <<>>, IF cur = <<>> THEN acc ELSE Append(acc, cur))
  ELSE SplitFrom(s, i + 1, Append(cur, s[i]), acc)
Split(s) == SplitFrom(s, 1, <<>>, <<>>)

RECURSIVE NormalizeFrom(_, _, _)
\* path.normalize of an absolute path: '.' is dropped, '..' removes the
\* segment before it and is dropped at the root.
NormalizeFrom(segs, i, acc) ==
  IF i > Len(segs) THEN acc
  ELSE IF segs[i] = <<".">> THEN NormalizeFrom(segs, i + 1, acc)
  ELSE IF segs[i] = <<".", ".">>
  THEN NormalizeFrom(segs, i + 1,
                     IF acc = <<>> THEN acc ELSE SubSeq(acc, 1, Len(acc) - 1))
  ELSE NormalizeFrom(segs, i + 1, Append(acc, segs[i]))

\* path.join(a, b) for an absolute a.
path_join(a, b) == NormalizeFrom(Split(a \o <<"/">> \o b), 1, <<>>)

RECURSIVE JoinSegments(_)
\* The path string of a sequence of segments, without a leading slash.
JoinSegments(segs) ==
  IF segs = <<>> THEN <<>>
  ELSE IF Len(segs) = 1 THEN segs[1]
  ELSE segs[1] \o <<"/">> \o JoinSegments(Tail(segs))

IsPrefix(a, b) == Len(a) <= Len(b) /\ SubSeq(b, 1, Len(a)) = a
Parent(p) == SubSeq(p, 1, Len(p) - 1)
Ancestors(p) == {SubSeq(p, 1, k) : k \in 0..Len(p)}

\* The file system: the files and the directories that exist.
fs_exists(fs, p) == p \in fs.files \/ p \in fs.dirs

\* fs.mkdir(p, {recursive: true}): [threw, fs]
fs_mkdir(fs, p) ==
  IF \E a \in Ancestors(p) : a \in fs.files
  THEN [threw |-> TRUE, fs |-> fs]
  ELSE [threw |-> FALSE, fs |-> [fs EXCEPT !.dirs = @ \cup Ancestors(p)]]

\* fs.writeFile(p, content): [threw, fs]
fs_writeFile(fs, p) ==
  IF p = <<>> \/ p \in fs.dirs \/ Parent(p) \notin fs.dirs
  THEN [threw |-> TRUE, fs |-> fs]
  ELSE [threw |-> FALSE, fs |-> [fs EXCEPT !.files = @ \cup {p}]]

\* fs.readFile(p) and fs.readdir(p) throw on a missing path.
fs_readFile_throws(fs, p) == p \notin fs.files
fs_readdir_throws(fs, p) == p \notin fs.dirs

\* fs.unlink(p): [threw, fs]
fs_unlink(fs, p) ==
  IF p \notin fs.files
  THEN [threw |-> TRUE, fs |-> fs]
  ELSE [threw |-> FALSE, fs |-> [fs EXCEPT !.files = @ \ {p}]]

\* ------------------------------------------------------------- find_files glob
RECURSIVE ReplaceFrom(_, _, _, _)
\* String.prototype.replace(/from/g, to) for a literal from.
ReplaceFrom(s, i, from, to) ==
  IF i > Len(s) THEN <<>>
  ELSE IF i + Len(from) - 1 <= Len(s) /\ SubSeq(s, i, i + Len(from) - 1) = from
  THEN to \o ReplaceFrom(s, i + Len(from), from, to)
  ELSE <<s[i]>> \o ReplaceFrom(s, i + 1, from, to)
ReplaceAll(s, from, to) == ReplaceFrom(s, 1, from, to)

GLOBSTAR == <<"{", "{", "G", "L", "O", "B", "S", "T", "A", "R", "}", "}">>

\* The regex source find_files builds from a glob pattern.
globToRegex(pattern) ==
  ReplaceAll(
    ReplaceAll(
      ReplaceAll(
        ReplaceAll(
          ReplaceAll(pattern, <<"*", "*">>, GLOBSTAR),
          <<"*">>, <<"[", "^", "/", "]", "*">>),
        <<"?">>, <<"[", "^", "/", "]">>),
      GLOBSTAR, <<".", "*">>),
    <<".">>, <<"\\", ".">>)

\* new RegExp(source) for the sources the translation can produce: literal
\* characters, \c, ., [^/], each with an optional *. An atom is
\* [kind, char, star]; the source is invalid when a * has no atom before it
\* or a [ does not open [^/].
RegexAtom(kind, c, star) == [kind |-> kind, char |-> c, star |-> star]
StarAt(src, i) == i <= Len(src) /\ src[i] = "*"

RECURSIVE RegexParseFrom(_, _, _)
RegexParseFrom(src, i, acc) ==
  IF i > Len(src) THEN [valid |-> TRUE, atoms |-> acc]
  ELSE IF src[i] = "\\"
  THEN IF i + 1 > Len(src) THEN [valid |-> FALSE, atoms |-> acc]
       ELSE RegexParseFrom(src, IF StarAt(src, i + 2) THEN i + 3 ELSE i + 2,
                           Append(acc, RegexAtom("literal", src[i + 1],
                                                 StarAt(src, i + 2))))
  ELSE IF src[i] = "["
  THEN IF i + 3 <= Len(src) /\ SubSeq(src, i, i + 3) = <<"[", "^", "/", "]">>
       THEN RegexParseFrom(src, IF StarAt(src, i + 4) THEN i + 5 ELSE i + 4,
                           Append(acc, RegexAtom("notslash", "/", StarAt(src, i + 4))))
       ELSE [valid |-> FALSE, atoms |-> acc]
  ELSE IF src[i] = "*" THEN [valid |-> FALSE, atoms |-> acc]
  ELSE RegexParseFrom(src, IF StarAt(src, i + 1) THEN i + 2 ELSE i + 1,
                      Append(acc, RegexAtom(IF src[i] = "." THEN "any" ELSE "literal",
                                            src[i], StarAt(src, i + 1))))
RegexParse(src) == RegexParseFrom(src, 1, <<>>)

AtomMatches(atom, c) ==
  CASE atom.kind = "literal" -> c = atom.char
    [] atom.kind = "notslash" -> c # "/"
    [] OTHER -> TRUE

RECURSIVE RegexMatchFrom(_, _, _, _)
\* The atoms from i on match the string from j to its end: ^...$
RegexMatchFrom(atoms, i, str, j) ==
  IF i > Len(atoms) THEN j > Len(str)
  ELSE IF atoms[i].star
  THEN \/ RegexMatchFrom(atoms, i + 1, str, j)
       \/ /\ j <= Len(str)
          /\ AtomMatches(atoms[i], str[j])
          /\ RegexMatchFrom(atoms, i, str, j + 1)
  ELSE /\ j <= Len(str)
       /\ AtomMatches(atoms[i], str[j])
       /\ RegexMatchFrom(atoms, i + 1, str, j + 1)

\* regex.test(str)
RegexTest(atoms, str) == RegexMatchFrom(atoms, 1, str, 1)

\* s.includes(sub)
Includes(s, sub) ==
  \E i \in 1..(Len(s) - Len(sub) + 1) : SubSeq(s, i, i + Len(sub) - 1) = sub

\* ------------------------------------------------------------- tool sandbox
\* defineTools(projectPath, onToolEvent): the project root of the session.
ProjectPath == <<"/", "p">>
ProjectRoot == path_join(ProjectPath, <<>>)

IgnoredNames ==
  {<<"n", "o", "d", "e", "_", "m", "o", "d", "u", "l", "e", "s">>,
   <<".", "g", "i", "t">>, <<"d", "i", "s", "t">>, <<".", "n", "e", "x", "t">>,
   <<"_", "_", "p", "y", "c", "a", "c", "h", "e", "_", "_">>}

\* listFilesRecursive(dir, recursive, maxDepth, 0): the entries below dir,
\* without the ignored names and what lies below them; the call at depth d
\* lists paths of d + 1 segments and descends while d < maxDepth.
listFilesRecursive(fs, dir, recursive, maxDepth) ==
  {q \in fs.files \cup fs.dirs :
     /\ IsPrefix(dir, q) /\ Len(q) > Len(dir)
     /\ Len(q) - Len(dir) <= (IF recursive THEN maxDepth + 1 ELSE 1)
     /\ \A k \in (Len(dir) + 1)..Len(q) : q[k] \notin IgnoredNames}

\* file.path of an entry: its path relative to the listed directory.
RelativePath(dir, q) == JoinSegments(SubSeq(q, Len(dir) + 1, Len(q)))

\* The result every handler returns from its catch block.
ToolFailure == [success |-> FALSE, error |-> "message"]

\* A handler whose catch block throws the error again.
TryCatchRethrows(threw, ok) ==
  IF threw THEN [threw |-> TRUE, value |-> ToolFailure]
  ELSE [threw |-> FALSE, value |-> ok]

\* try { ...; return ok } catch (error) { ...; return {success: false, error} }
TryCatch(threw, ok) ==
  [threw |-> FALSE, value |-> IF threw THEN ToolFailure ELSE ok]

\* What a tool call leaves: the file system, the paths given to the file
\* system or the shell (io), whether the underlying operation failed, and
\* what the handler returned or threw.
ToolOutcome(name, fs, io, failed, out) ==
  [tool |-> name, fs |-> fs, io |-> io, failed |-> failed, out |-> out]

\* edit_file: mkdir of the parent directory (unless told not to), writeFile.
edit_file_body(fs, abs, createDirectories, fault) ==
  IF fault THEN [threw |-> TRUE, fs |-> fs]
  ELSE IF ~createDirectories THEN fs_writeFile(fs, abs)
  ELSE IF fs_mkdir(fs, Parent(abs)).threw THEN [threw |-> TRUE, fs |-> fs]
  ELSE fs_writeFile(fs_mkdir(fs, Parent(abs)).fs, abs)

edit_file_at(abs, body) ==
  ToolOutcome("edit_file", body.fs, {abs}, body.threw,
              TryCatch(body.threw, [success |-> TRUE, filePath |-> abs]))

edit_file(fs, filePath, createDirectories, fault) ==
  edit_file_at(path_join(ProjectPath, filePath),
               edit_file_body(fs, path_join(ProjectPath, filePath),
                              createDirectories, fault))

\* read_file: readFile.
read_file_at(fs, abs, threw) ==
  ToolOutcome("read_file", fs, {abs}, threw,
              TryCatch(threw, [success |-> TRUE, content |-> abs]))

read_file(fs, filePath, fault) ==
  read_file_at(fs, path_join(ProjectPath, filePath),
               fault \/ fs_readFile_throws(fs, path_join(ProjectPath, filePath)))

\* delete_file: unlink.
delete_file_at(abs, body) ==
  ToolOutcome("delete_file", body.fs, {abs}, body.threw,
              TryCatch(body.threw, [success |-> TRUE, filePath |-> abs]))

delete_file(fs, filePath, fault) ==
  delete_file_at(path_join(ProjectPath, filePath),
                 IF fault THEN [threw |-> TRUE, fs |-> fs]
                 ELSE fs_unlink(fs, path_join(ProjectPath, filePath)))

\* list_files: listFilesRecursive of the directory.
list_files_at(fs, abs, recursive, maxDepth, threw) ==
  ToolOutcome("list_files", fs, {abs}, threw,
              TryCatch(threw,
                       [success |-> TRUE,
                        files |-> {RelativePath(abs, q) :
                                     q \in listFilesRecursive(fs, abs, recursive,
                                                              maxDepth)}]))

list_files(fs, dirPath, recursive, maxDepth, fault) ==
  list_files_at(fs, path_join(ProjectPath, dirPath), recursive, maxDepth,
                fault \/ fs_readdir_throws(fs, path_join(ProjectPath, dirPath)))

\* apply_patch: readFile, the edits, writeFile of the same path.
apply_patch_at(fs, abs, threw) ==
  ToolOutcome("apply_patch", fs, {abs}, threw,
              TryCatch(threw, [success |-> TRUE, filePath |-> abs]))

apply_patch(fs, filePath, fault) ==
  apply_patch_at(fs, path_join(ProjectPath, filePath),
                 fault \/ fs_readFile_throws(fs, path_join(ProjectPath, filePath)))

\* search_code: ripgrep on the search path; when that fails, new
\* RegExp(pattern) and a recursive listing of the search path, in which
\* unreadable files are skipped.
search_code_at(fs, abs, rgOk, threw) ==
  ToolOutcome("search_code", fs, {abs}, ~rgOk /\ threw,
              TryCatch(~rgOk /\ threw,
                       [success |-> TRUE,
                        files |-> {q \in listFilesRecursive(fs, abs, TRUE, 10) :
                                     q \in fs.files}]))

search_code(fs, patternValid, searchPath, rgOk) ==
  search_code_at(fs, path_join(ProjectPath, searchPath), rgOk,
                 ~patternValid
                   \/ fs_readdir_throws(fs, path_join(ProjectPath, searchPath)))

\* find_files: the files below the project root whose relative path passes
\* the regex of the pattern and holds no ignored name.
find_files_matches(fs, atoms) ==
  {RelativePath(ProjectRoot, q) :
     q \in {f \in listFilesRecursive(fs, ProjectRoot, TRUE, 15) :
              /\ f \in fs.files
              /\ \A ig \in IgnoredNames :
                   ~Includes(RelativePath(ProjectRoot, f), ig)
              /\ RegexTest(atoms, RelativePath(ProjectRoot, f))}}

find_files_with(fs, regex, fault) ==
  ToolOutcome("find_files", fs, {ProjectRoot}, fault \/ ~regex.valid,
              TryCatch(fault \/ ~regex.valid,
                       [success |-> TRUE,
                        files |-> IF regex.valid
                                  THEN find_files_matches(fs, regex.atoms)
                                  ELSE {}]))

find_files(fs, pattern, fault) ==
  find_files_with(fs, RegexParse(globToRegex(pattern)), fault)

\* run_command: exec in the working directory; x is what exec gives: ok,
\* stdout, stderr and, for a timeout or a nonzero exit, the message.
run_command_at(fs, workDir, x, threw) ==
  ToolOutcome("run_command", fs, {workDir}, threw,
              [threw |-> FALSE,
               value |-> IF threw
                         THEN [success |-> FALSE,
                               stdout |-> safeToolText(x.stdout, DefaultMaxChars),
                               stderr |-> safeToolText(x.stderr, DefaultMaxChars),
                               error |-> safeToolText(x.message, ErrorMaxChars)]
                         ELSE [success |-> TRUE,
                               stdout |-> safeToolText(Trim(x.stdout), DefaultMaxChars),
                               stderr |-> safeToolText(Trim(x.stderr),
                                                       DefaultMaxChars)]])

\* exec fails before the command runs when the working directory is missing.
ExecNoDirectory ==
  [ok |-> FALSE, stdout |-> <<>>, stderr |-> <<>>,
   message |-> <<115, 112, 97, 119, 110, 32, 69, 78, 79, 69, 78, 84>>]
execAsync(fs, workDir, x) == IF workDir \in fs.dirs THEN x ELSE ExecNoDirectory

run_command(fs, cwd, x) ==
  run_command_at(fs, path_join(ProjectPath, cwd),
                 execAsync(fs, path_join(ProjectPath, cwd), x),
                 ~execAsync(fs, path_join(ProjectPath, cwd), x).ok)

\* collab_web_search and web_fetch: curl through exec.
collab_web_search(fs, ok) ==
  ToolOutcome("collab_web_search", fs, {}, ~ok,
              TryCatch(~ok, [success |-> TRUE, results |-> <<>>]))

web_fetch(fs, ok) ==
  ToolOutcome("web_fetch", fs, {}, ~ok,
              TryCatch(~ok, [success |-> TRUE, content |-> <<>>]))

\* todo_write: mkdir of .collablearn, writeFile of todo.md (a failing read
\* of the old list in append mode is ignored).
TodoDir == path_join(ProjectPath, <<".", "c", "o", "l", "l", "a", "b", "l", "e", "a", "r", "n">>)
TodoFile == Append(TodoDir, <<"t", "o", "d", "o", ".", "m", "d">>)

todo_write_body(fs, fault) ==
  IF fault \/ fs_mkdir(fs, TodoDir).threw THEN [threw |-> TRUE, fs |-> fs]
  ELSE fs_writeFile(fs_mkdir(fs, TodoDir).fs, TodoFile)

todo_write_from(body) ==
  ToolOutcome("todo_write", body.fs, {TodoDir, TodoFile}, body.threw,
              TryCatch(body.threw, [success |-> TRUE, filePath |-> TodoFile]))

todo_write(fs, fault) == todo_write_from(todo_write_body(fs, fault))

\* The project on disk when the session starts, and a file outside of it.
File_a_ts == path_join(ProjectPath, <<"s", "r", "c", "/", "a", ".", "t", "s">>)
File_a_b_ts == path_join(ProjectPath, <<"s", "r", "c", "/", "a", "/", "b", ".", "t", "s">>)
File_a_b_tsx ==
  path_join(ProjectPath, <<"s", "r", "c", "/", "a", "/", "b", ".", "t", "s", "x">>)
File_outside == path_join(<<"/">>, <<"e", "t", "c", "/", "x">>)
InitialFiles == {File_a_ts, File_a_b_ts, File_a_b_tsx, File_outside}
InitialFs ==
  [files |-> InitialFiles,
   dirs |-> UNION {Ancestors(Parent(f)) : f \in InitialFiles}]
NoToolCall == [tool |-> "none"]

\* A tool call has ended: the file system it leaves, and the call with its
\* path argument, its input and what it returned or threw.
ToolReturn(s, arg, input, o) ==
  [s EXCEPT !.fsys = o.fs,
            !.toolCall = [tool |-> o.tool, arg |-> arg, input |-> input,
                          io |-> o.io, failed |-> o.failed,
                          threw |-> o.out.threw, result |-> o.out.value]]

\* No agents:executeTest call is waiting for its in_progress push; no reply
\* has been given to a request of the user interface.
NoCall == [agentId |-> NULL, taskId |-> 0, processId |-> NoProcessId,
           projectPath |-> NULL]
NoReply == [op |-> "none"]

VARIABLES
  isRunning, shouldStop, currentTaskSubscription, currentProcessId,
  pc, options, pendingTasks, idx, results, blockerDetected, blockerReason,
  lastResult, outcome, pushes, stopAt,
  runningProcesses, execs, client, activeSession,
  executionLogs, testCall, reply, failedPushes, phaseCompletes,
  fsys, toolCall, callbacks, toolCalls, applied, adapter,
  now, nchunks, rejected, runs

progVars == <<isRunning, shouldStop, currentTaskSubscription, currentProcessId,
              pc, options, pendingTasks, idx, results, blockerDetected,
              blockerReason, lastResult, outcome, pushes, stopAt,
              runningProcesses, execs, client, activeSession,
              executionLogs, testCall, reply, failedPushes, phaseCompletes,
              fsys, toolCall, callbacks, toolCalls, applied, adapter>>
vars == <<progVars, now, nchunks, rejected, runs>>

State ==
  [isRunning |-> isRunning, shouldStop |-> shouldStop,
   currentTaskSubscription |-> currentTaskSubscription,
   currentProcessId |-> currentProcessId, pc |-> pc, options |-> options,
   pendingTasks |-> pendingTasks, idx |-> idx, results |-> results,
   blockerDetected |-> blockerDetected, blockerReason |-> blockerReason,
   lastResult |-> lastResult, outcome |-> outcome, pushes |-> pushes,
   stopAt |-> stopAt, runningProcesses |-> runningProcesses, execs |-> execs,
   client |-> client, activeSession |-> activeSession,
   executionLogs |-> executionLogs, testCall |-> testCall, reply |-> reply,
   failedPushes |-> failedPushes, phaseCompletes |-> phaseCompletes,
   fsys |-> fsys, toolCall |-> toolCall, callbacks |-> callbacks,
   toolCalls |-> toolCalls, applied |-> applied, adapter |-> adapter,
   now |-> now]

\* The state after a handler; behaviours are cut where a handler would
\* dispatch more than MaxExec executions.
Apply(s) ==
  /\ Len(s.execs) <= MaxExec
  /\ isRunning' = s.isRunning
  /\ shouldStop' = s.shouldStop
  /\ currentTaskSubscription' = s.currentTaskSubscription
  /\ currentProcessId' = s.currentProcessId
  /\ pc' = s.pc
  /\ options' = s.options
  /\ pendingTasks' = s.pendingTasks
  /\ idx' = s.idx
  /\ results' = s.results
  /\ blockerDetected' = s.blockerDetected
  /\ blockerReason' = s.blockerReason
  /\ lastResult' = s.lastResult
  /\ outcome' = s.outcome
  /\ pushes' = s.pushes
  /\ stopAt' = s.stopAt
  /\ runningProcesses' = s.runningProcesses
  /\ execs' = s.execs
  /\ client' = s.client
  /\ activeSession' = s.activeSession
  /\ executionLogs' = s.executionLogs
  /\ testCall' = s.testCall
  /\ reply' = s.reply
  /\ failedPushes' = s.failedPushes
  /\ phaseCompletes' = s.phaseCompletes
  /\ fsys' = s.fsys
  /\ toolCall' = s.toolCall
  /\ callbacks' = s.callbacks
  /\ toolCalls' = s.toolCalls
  /\ applied' = s.applied
  /\ adapter' = s.adapter

Init ==
  /\ isRunning = FALSE
  /\ shouldStop = FALSE
  /\ currentTaskSubscription = NoSubscription
  /\ currentProcessId = NoProcessId
  /\ pc = "idle"
  /\ options = [agentId |-> NULL, projectPath |-> NULL]
  /\ pendingTasks = <<>>
  /\ idx = 0
  /\ results = <<>>
  /\ blockerDetected = FALSE
  /\ blockerReason = NoReason
  /\ lastResult = NoResult
  /\ outcome = "none"
  /\ pushes = <<>>
  /\ stopAt = -1
  /\ runningProcesses = <<>>
  /\ execs = <<>>
  /\ client = "none"
  /\ activeSession = NoSubscription
  /\ executionLogs = <<>>
  /\ testCall = NoCall
  /\ reply = NoReply
  /\ failedPushes = {}
  /\ phaseCompletes = 0
  /\ fsys = InitialFs
  /\ toolCall = NoToolCall
  /\ callbacks = <<>>
  /\ toolCalls = <<>>
  /\ applied = <<>>
  /\ adapter = [isCliAvailable |-> FALSE, calls |-> <<>>]
  /\ now = 0
  /\ nchunks = 0
  /\ rejected = 0
  /\ runs = 0

\* ------------------------------------------------------------- ConfigStore
\* The execution logs of the store: a function from the task ids that have a
\* record to the record (outputs, lastExecutedAt, processId, status); a missing
\* processId is NoProcessId, a missing status NULL.
LogCap == 2000

HasLog(logs, taskId) == taskId \in DOMAIN logs

\* Date.now() when the clock of the model reads t: a positive number.
DateNow(t) == t + 1

LogRecord(outputs, lastExecutedAt, processId, status) ==
  [outputs |-> outputs, lastExecutedAt |-> lastExecutedAt,
   processId |-> processId, status |-> status]

\* storeData.executionLogs[taskId] = rec
PutLog(logs, taskId, rec) ==
  [k \in (DOMAIN logs) \cup {taskId} |-> IF k = taskId THEN rec ELSE logs[k]]

\* prev?.processId, prev?.status, prev?.outputs || []
PrevProcessId(logs, taskId) ==
  IF HasLog(logs, taskId) THEN logs[taskId].processId ELSE NoProcessId
PrevStatus(logs, taskId) ==
  IF HasLog(logs, taskId) THEN logs[taskId].status ELSE NULL
PrevOutputs(logs, taskId) ==
  IF HasLog(logs, taskId) THEN logs[taskId].outputs ELSE <<>>
\* prev?.lastExecutedAt || Date.now(), t the reading of the clock
PrevLastExecutedAt(logs, taskId, t) ==
  IF HasLog(logs, taskId) /\ logs[taskId].lastExecutedAt # 0
  THEN logs[taskId].lastExecutedAt
  ELSE DateNow(t)

setExecutionLogs(logs, taskId, outputs, t) ==
  PutLog(logs, taskId,
         LogRecord(outputs, DateNow(t), PrevProcessId(logs, taskId),
                   PrevStatus(logs, taskId)))

\* setExecutionMeta that stamps the record with the time of the call.
setExecutionMetaStamps(logs, taskId, processId, status, t) ==
  PutLog(logs, taskId,
         LogRecord(PrevOutputs(logs, taskId), DateNow(t),
                   IF processId # NoProcessId THEN processId
                   ELSE PrevProcessId(logs, taskId),
                   IF status # NULL THEN status ELSE PrevStatus(logs, taskId)))

\* meta.processId ?? prev?.processId, meta.status ?? prev?.status
setExecutionMeta(logs, taskId, processId, status, t) ==
  PutLog(logs, taskId,
         LogRecord(PrevOutputs(logs, taskId), PrevLastExecutedAt(logs, taskId, t),
                   IF processId # NoProcessId THEN processId
                   ELSE PrevProcessId(logs, taskId),
                   IF status # NULL THEN status ELSE PrevStatus(logs, taskId)))

\* outputs.length > 2000 ? outputs.slice(outputs.length - 2000) : outputs
Capped(outputs) ==
  IF Len(outputs) > LogCap
  THEN SubSeq(outputs, Len(outputs) - LogCap + 1, Len(outputs))
  ELSE outputs

appendExecutionOutput(logs, taskId, output, t) ==
  PutLog(logs, taskId,
         LogRecord(Capped(Append(PrevOutputs(logs, taskId), output)), DateNow(t),
                   PrevProcessId(logs, taskId), PrevStatus(logs, taskId)))

clearExecutionLogs(logs, taskId) ==
  [k \in (DOMAIN logs) \ {taskId} |-> logs[k]]

\* ------------------------------------------------------------- rxjs Subject
\* One execution attempt: the RunningProcess object the registry creates for
\* it (kind, status), its Subject (subj, channel), the single observer of the
\* returned stream (sub; it receives channel[subFrom+1 ..]), the child process
\* or the session execution behind it (stage, errorFired, cancelled) and a
\* stopExecution call that is awaiting the cancel callback (stopping). The
\* observer is the phase orchestrator's or the one of agents:executeTest, whose
\* closure variable hasError is kept here.
NewExec(pid, task, i, kind, stage) ==
  [pid |-> pid, task |-> task, idx |-> i, kind |-> kind,
   status |-> IF kind = "none" THEN NULL ELSE "running",
   subj |-> "open", channel |-> <<>>, sub |-> "none", subFrom |-> 0, subTo |-> 0,
   stage |-> stage, errorFired |-> FALSE, cancelled |-> FALSE, stopping |-> "no",
   observer |-> "none", hasError |-> FALSE]

\* Events the observer of the returned stream has received.
Delivered(x) ==
  CASE x.sub = "none" -> <<>>
    [] x.sub = "unsubscribed" -> SubSeq(x.channel, x.subFrom + 1, x.subTo)
    [] OTHER -> SubSeq(x.channel, x.subFrom + 1, Len(x.channel))

\* A stopped Subject (after error() or complete()) ignores next().
SubjectAccepts(x) == x.subj = "open"

\* A next callback that records every blocker it sees.
ObserverNextLastWins(s, ev) ==
  IF detectBlocker(ev.data)
  THEN [s EXCEPT !.blockerDetected = TRUE,
                 !.blockerReason = extractBlockerReason(ev.data),
                 !.callbacks = Append(@, <<"onTaskOutput", s.pendingTasks[s.idx]>>)]
  ELSE [s EXCEPT !.callbacks = Append(@, <<"onTaskOutput", s.pendingTasks[s.idx]>>)]

\* PhaseOrchestrator.executeTask, the next callback of the subscription.
ObserverNext(s, ev) ==
  IF ~s.blockerDetected /\ detectBlocker(ev.data)
  THEN [s EXCEPT !.blockerDetected = TRUE,
                 !.blockerReason = extractBlockerReason(ev.data),
                 !.callbacks = Append(@, <<"onTaskOutput", s.pendingTasks[s.idx]>>)]
  ELSE [s EXCEPT !.callbacks = Append(@, <<"onTaskOutput", s.pendingTasks[s.idx]>>)]

\* agents:executeTest, the next callback of the subscription of execution e;
\* realTaskId is the task of the execution, 0 when the request gave none.
TestNext(s, e, ev) ==
  [s EXCEPT !.executionLogs =
              IF s.execs[e].task # 0
              THEN appendExecutionOutput(@, s.execs[e].task, ev, s.now) ELSE @,
            !.execs[e].hasError = @ \/ ev.type = "error"]

\* subject.next(ev) on the Subject of execution e.
\* A Subject that goes on calling the next callback of an observer that has
\* unsubscribed.
Subject_nextAfterUnsubscribe(s, e, ev) ==
  LET x == s.execs[e] IN
  IF ~SubjectAccepts(x) THEN s
  ELSE LET s1 == [s EXCEPT !.execs[e].channel = Append(@, ev)] IN
       IF x.sub \notin {"active", "unsubscribed"} THEN s1
       ELSE IF x.observer = "test" THEN TestNext(s1, e, ev)
       ELSE ObserverNext(s1, ev)

Subject_next(s, e, ev) ==
  LET x == s.execs[e] IN
  IF ~SubjectAccepts(x) THEN s
  ELSE LET s1 == [s EXCEPT !.execs[e].channel = Append(@, ev)] IN
       IF x.sub # "active" THEN s1
       ELSE IF x.observer = "test" THEN TestNext(s1, e, ev)
       ELSE ObserverNext(s1, ev)

\* ------------------------------------------------------------- results
TaskResultOf(task, status, reason, duration) ==
  [taskId |-> task, status |-> status, blockerReason |-> reason,
   duration |-> duration]

\* taskStartTime of the executeTask call that dispatched execution e: the
\* Date.now() its processId was built with in the same synchronous block.
taskStartTime(s, e) == s.execs[e].pid[3]

\* A callback of PhaseExecutionEvents has been called for a task.
Called(s, name, task) == [s EXCEPT !.callbacks = Append(@, <<name, task>>)]

CountStatus(rs, st) == Cardinality({j \in 1..Len(rs) : rs[j].status = st})

PhaseResultOf(rs, stopped) ==
  [tasksCompleted |-> CountStatus(rs, "completed"),
   tasksFailed |-> CountStatus(rs, "failed"),
   tasksBlocked |-> CountStatus(rs, "blocked"),
   tasksSkipped |-> CountStatus(rs, "skipped"),
   results |-> rs,
   stoppedByUser |-> stopped]

\* A finally block that leaves shouldStop and the handles of the last task.
FinallyKeepsStop(s) == [s EXCEPT !.isRunning = FALSE, !.pc = "idle"]

\* The finally block of executePhase.
Finally(s) ==
  [s EXCEPT !.isRunning = FALSE, !.shouldStop = FALSE,
            !.currentTaskSubscription = NoSubscription,
            !.currentProcessId = NoProcessId,
            !.pc = "idle"]

\* executePhase returns a PhaseResult / ends with an exception.
ReturnPhase(s, pr) == Finally([s EXCEPT !.lastResult = pr, !.outcome = "returned"])
ThrowPhase(s) == Finally([s EXCEPT !.outcome = "threw"])

\* The end of executePhase after the loop: events.onPhaseComplete?.(phaseResult)
\* and return phaseResult. phaseCompletes is history: the number of
\* onPhaseComplete calls of the current run.
CompletePhase(s, pr) == ReturnPhase([s EXCEPT !.phaseCompletes = @ + 1], pr)

\* ------------------------------------------------------------- AgentManager.executeTask
SetProcess(rp, pid, e) ==
  [p \in (DOMAIN rp) \cup {pid} |-> IF p = pid THEN e ELSE rp[p]]

\* handleSdkOutput: the registry's onOutput callback of a session execution.
handleSdkOutput(s, e, out) ==
  LET pid == s.execs[e].pid
      s1 == IF pid \in DOMAIN s.runningProcesses
            THEN LET t == s.runningProcesses[pid] IN
                 [s EXCEPT !.execs[t].status =
                    CASE out.type = "complete" -> "completed"
                      [] out.type = "error" -> "failed"
                      [] OTHER -> @]
            ELSE s
  IN Subject_next(s1, e, out)

\* executeTask up to its return: [threw, s]; the new execution is the last
\* element of s.execs.
AgentManager_executeTask(s, agentId, task, i, pid, projectPath) ==
  LET e == Len(s.execs) + 1 IN
  IF agentId \notin RegisteredAdapters
  THEN [threw |-> TRUE, s |-> s]
  ELSE IF HasExecuteSdk(agentId)
  THEN \* executeSdk runs up to its first await, then the entry is tracked
       \* and the heartbeat is emitted
       LET fresh == s.client = "none"
           x == NewExec(pid, task, i, "cancel",
                        IF fresh THEN "starting" ELSE "creating")
           s1 == [s EXCEPT !.execs = Append(@, x)]
           s2 == handleSdkOutput(s1, e,
                   IF fresh THEN StatusConnecting ELSE StatusCreating)
           s3 == [s2 EXCEPT !.runningProcesses = SetProcess(@, pid, e)]
       IN [threw |-> FALSE, s |-> Subject_next(s3, e, StatusStarted)]
  ELSE IF ExecuteThrows(agentId, projectPath)
  THEN \* catch: subject.next(error); subject.error(error)
       LET x == NewExec(pid, task, i, "none", "closed")
           s1 == [s EXCEPT !.execs = Append(@, x)]
           s2 == Subject_next(s1, e, EvError)
       IN [threw |-> FALSE, s |-> [s2 EXCEPT !.execs[e].subj = "errored"]]
  ELSE LET x == NewExec(pid, task, i, "process", "running")
           s1 == [s EXCEPT !.execs = Append(@, x),
                           !.runningProcesses = SetProcess(@, pid, e)]
       IN [threw |-> FALSE, s |-> Subject_next(s1, e, StatusStarted)]

\* ------------------------------------------------------------- PhaseOrchestrator
\* The processId of a phase task: phase-<id>-task-<task>-<Date.now()>.
PhaseProcessId(task, t) == <<"phase", task, t>>

\* executeTask up to the call of agentManager.executeTask: the in_progress
\* push and the processId of the attempt.
BeforeDispatch(s, i) ==
  [s EXCEPT !.idx = i, !.blockerDetected = FALSE, !.blockerReason = NoReason,
            !.pushes = Append(@, <<s.pendingTasks[i], "in_progress">>),
            !.currentProcessId = PhaseProcessId(s.pendingTasks[i], s.now)]

\* output$.subscribe(...) on the stream r.s holds as its last execution: a
\* stream that has already failed calls the error callback at once.
Subscribe(r, task) ==
  LET e == Len(r.s.execs) IN
  IF r.s.execs[e].subj = "errored"
  THEN [kind |-> "resolved",
        s |-> [r.s EXCEPT !.execs[e].sub = "notified",
                          !.execs[e].observer = "phase",
                          !.execs[e].subFrom = Len(r.s.execs[e].channel),
                          !.currentTaskSubscription = e],
        result |-> TaskResultOf(task, "failed", NoReason, 0)]
  ELSE [kind |-> "awaiting",
        s |-> [r.s EXCEPT !.execs[e].sub = "active",
                          !.execs[e].observer = "phase",
                          !.execs[e].subFrom = Len(r.s.execs[e].channel),
                          !.currentTaskSubscription = e],
        result |-> TaskResultOf(task, NULL, NoReason, 0)]

\* The promise of executeTask after agentManager.executeTask returned r.
AfterDispatch(r, task) ==
  IF r.threw
  THEN [kind |-> "threw", s |-> r.s, result |-> TaskResultOf(task, NULL, NoReason, 0)]
  ELSE Subscribe(r, task)

\* executeTask up to the point where its promise is pending or settled:
\* kind "threw" (the executor threw), "resolved" (the subscription called
\* back at once) or "awaiting".
PhaseOrchestrator_executeTask(s, i) ==
  AfterDispatch(AgentManager_executeTask(BeforeDispatch(s, i), s.options.agentId,
                                         s.pendingTasks[i], i,
                                         PhaseProcessId(s.pendingTasks[i], s.now),
                                         s.options.projectPath),
                s.pendingTasks[i])

RECURSIVE RunLoop(_, _)

\* results.push(taskResult); onTaskComplete; onBlocker for a blocked task.
TaskCompleted(s, r) ==
  [s EXCEPT !.results = Append(@, r),
            !.callbacks = IF r.status = "blocked"
                          THEN @ \o << <<"onTaskComplete", r.taskId>>,
                                       <<"onBlocker", r.taskId>> >>
                          ELSE Append(@, <<"onTaskComplete", r.taskId>>)]

\* AfterTask with the tasks after a blocked one recorded as skipped.
AfterTaskSkipRest(s, i, r) ==
  LET s1 == TaskCompleted(s, r) IN
  IF r.status = "blocked"
  THEN LET rest == [j \in 1..(Len(s.pendingTasks) - i) |->
                      TaskResultOf(s.pendingTasks[i + j], "skipped", NoReason, 0)]
           s2 == [s1 EXCEPT !.results = @ \o rest]
       IN CompletePhase(s2, PhaseResultOf(s2.results, s2.shouldStop))
  ELSE RunLoop(s1, i + 1)

\* AfterTask with a failed task halting the phase like a blocked one.
AfterTaskHaltOnFailed(s, i, r) ==
  LET s1 == TaskCompleted(s, r) IN
  IF r.status \in {"blocked", "failed"}
  THEN CompletePhase(s1, PhaseResultOf(s1.results, s1.shouldStop))
  ELSE RunLoop(s1, i + 1)

\* AfterTask without the break on a blocked task.
AfterTaskNoBreak(s, i, r) == RunLoop(TaskCompleted(s, r), i + 1)

\* executePhase after executeTask has resolved with r for the task at index i.
AfterTask(s, i, r) ==
  LET s1 == TaskCompleted(s, r) IN
  IF r.status = "blocked"
  THEN CompletePhase(s1, PhaseResultOf(s1.results, s1.shouldStop))
  ELSE RunLoop(s1, i + 1)

\* await this.executeTask(...) without the await: the loop goes on while
\* the stream of the task is open.
AwaitTaskNoAwait(d, i) ==
  CASE d.kind = "threw" -> ThrowPhase(d.s)
    [] d.kind = "resolved" -> AfterTask(d.s, i, d.result)
    [] OTHER -> IF i < Len(d.s.pendingTasks)
                THEN RunLoop(d.s, i + 1)
                ELSE [d.s EXCEPT !.pc = "task"]

\* executePhase at `await this.executeTask(...)`, d the state of the promise:
\* the executor threw, the promise is resolved, or the run waits.
AwaitTask(d, i) ==
  CASE d.kind = "threw" -> ThrowPhase(d.s)
    [] d.kind = "resolved" -> AfterTask(d.s, i, d.result)
    [] OTHER -> [d.s EXCEPT !.pc = "task"]

\* RunLoop leaving the loop on shouldStop without recording the remaining
\* tasks.
RunLoopNoSkip(s, i) ==
  IF i > Len(s.pendingTasks) \/ s.shouldStop
  THEN CompletePhase(s, PhaseResultOf(s.results, s.shouldStop))
  ELSE AwaitTask(PhaseOrchestrator_executeTask(
                   Called(s, "onTaskStart", s.pendingTasks[i]), i), i)

\* RunLoop announcing a skipped task with onTaskStart.
RunLoopSkipStarts(s, i) ==
  IF i > Len(s.pendingTasks)
  THEN CompletePhase(s, PhaseResultOf(s.results, s.shouldStop))
  ELSE IF s.shouldStop
  THEN RunLoop([Called(s, "onTaskStart", s.pendingTasks[i]) EXCEPT !.results =
                  Append(@, TaskResultOf(s.pendingTasks[i], "skipped", NoReason, 0))],
               i + 1)
  ELSE AwaitTask(PhaseOrchestrator_executeTask(
                   Called(s, "onTaskStart", s.pendingTasks[i]), i), i)

\* executePhase, the for loop from index i up to the next pending await.
RunLoop(s, i) ==
  IF i > Len(s.pendingTasks)
  THEN CompletePhase(s, PhaseResultOf(s.results, s.shouldStop))
  ELSE IF s.shouldStop
  THEN RunLoop([s EXCEPT !.results =
                  Append(@, TaskResultOf(s.pendingTasks[i], "skipped", NoReason, 0))],
               i + 1)
  ELSE AwaitTask(PhaseOrchestrator_executeTask(
                   Called(s, "onTaskStart", s.pendingTasks[i]), i), i)

\* The error callback carrying the blockerReason detected so far into the
\* failed result.
ObserverErrorKeepsReason(s, e) ==
  AfterTask(s, s.execs[e].idx,
            TaskResultOf(s.execs[e].task, "failed", s.blockerReason,
                         s.now - taskStartTime(s, e)))

\* The error callback resolving the task as blocked when a blocker had been
\* detected.
ObserverErrorHalts(s, e) ==
  AfterTask(s, s.execs[e].idx,
            IF s.blockerDetected
            THEN TaskResultOf(s.execs[e].task, "blocked", s.blockerReason,
                              s.now - taskStartTime(s, e))
            ELSE TaskResultOf(s.execs[e].task, "failed", NoReason,
                              s.now - taskStartTime(s, e)))

\* The error callback of the subscription of execution e.
ObserverError(s, e) ==
  AfterTask(s, s.execs[e].idx,
            TaskResultOf(s.execs[e].task, "failed", NoReason,
                         s.now - taskStartTime(s, e)))

\* The complete callback of the subscription of execution e.
ObserverComplete(s, e) ==
  LET task == s.execs[e].task IN
  IF s.blockerDetected
  THEN AfterTask([s EXCEPT !.pushes = Append(@, <<task, "blocked">>)],
                 s.execs[e].idx,
                 TaskResultOf(task, "blocked", s.blockerReason,
                              s.now - taskStartTime(s, e)))
  ELSE AfterTask([s EXCEPT !.pushes = Append(@, <<task, "completed">>)],
                 s.execs[e].idx,
                 TaskResultOf(task, "completed", NoReason,
                              s.now - taskStartTime(s, e)))

\* agents:executeTest, the error callback: the error is logged, the record is
\* marked failed and the task is pushed as blocked.
TestError(s, e) ==
  LET task == s.execs[e].task IN
  IF task = 0 THEN s
  ELSE [s EXCEPT !.executionLogs =
                   setExecutionMeta(appendExecutionOutput(@, task, EvError, s.now),
                                    task, NoProcessId, "failed", s.now),
                 !.pushes = Append(@, <<task, "blocked">>)]

\* agents:executeTest, the complete callback.
TestCompleteStatus(hasError) == IF hasError THEN "failed" ELSE "completed"

TestComplete(s, e) ==
  LET task == s.execs[e].task IN
  IF task = 0 THEN s
  ELSE [s EXCEPT !.executionLogs =
                   setExecutionMeta(@, task, NoProcessId,
                                    TestCompleteStatus(s.execs[e].hasError), s.now),
                 !.pushes = Append(@, <<task, IF s.execs[e].hasError
                                              THEN "blocked" ELSE "completed">>)]

\* subject.complete() / subject.error(err) on the Subject of execution e.
Subject_complete(s, e) ==
  LET x == s.execs[e] IN
  IF ~SubjectAccepts(x) THEN s
  ELSE IF x.sub # "active" THEN [s EXCEPT !.execs[e].subj = "completed"]
  ELSE IF x.observer = "test"
  THEN TestComplete([s EXCEPT !.execs[e].subj = "completed",
                              !.execs[e].sub = "notified"], e)
  ELSE ObserverComplete([s EXCEPT !.execs[e].subj = "completed",
                                  !.execs[e].sub = "notified"], e)

Subject_error(s, e) ==
  LET x == s.execs[e] IN
  IF ~SubjectAccepts(x) THEN s
  ELSE IF x.sub # "active" THEN [s EXCEPT !.execs[e].subj = "errored"]
  ELSE IF x.observer = "test"
  THEN TestError([s EXCEPT !.execs[e].subj = "errored",
                           !.execs[e].sub = "notified"], e)
  ELSE ObserverError([s EXCEPT !.execs[e].subj = "errored",
                               !.execs[e].sub = "notified"], e)

\* ------------------------------------------------------------- one-shot child process
\* childProcess.stdout/stderr 'data' handler.
ChildData(s, e, type, chunk) == Subject_next(s, e, Ev(type, chunk))

\* The status the 'close' handler derives from the exit code.
CloseStatus(code) == IF code = 0 THEN "completed" ELSE "failed"

\* childProcess 'close' handler.
ChildClose(s, e, code) ==
  LET pid == s.execs[e].pid
      s0 == [s EXCEPT !.execs[e].stage = "closed"]
      s1 == IF pid \in DOMAIN s0.runningProcesses
            THEN [s0 EXCEPT !.execs[s0.runningProcesses[pid]].status = CloseStatus(code)]
            ELSE s0
  IN Subject_complete(Subject_next(s1, e, EvComplete), e)

\* The 'error' handler without subject.error(error).
ChildErrorNoStop(s, e) ==
  LET pid == s.execs[e].pid
      s0 == [s EXCEPT !.execs[e].errorFired = TRUE]
      s1 == IF pid \in DOMAIN s0.runningProcesses
            THEN [s0 EXCEPT !.execs[s0.runningProcesses[pid]].status = "failed"]
            ELSE s0
  IN Subject_next(s1, e, EvError)

\* childProcess 'error' handler.
ChildError(s, e) ==
  LET pid == s.execs[e].pid
      s0 == [s EXCEPT !.execs[e].errorFired = TRUE]
      s1 == IF pid \in DOMAIN s0.runningProcesses
            THEN [s0 EXCEPT !.execs[s0.runningProcesses[pid]].status = "failed"]
            ELSE s0
  IN Subject_error(Subject_next(s1, e, EvError), e)

\* ------------------------------------------------------------- session execution
\* AgentManager.executeTask, execution.done.then(...).finally(...): the done
\* promise of execution e has resolved.
DoneSettled(s, e) ==
  LET pid == s.execs[e].pid IN
  Subject_complete(
    IF pid \in DOMAIN s.runningProcesses
       /\ s.execs[s.runningProcesses[pid]].status = "running"
    THEN [s EXCEPT !.execs[s.runningProcesses[pid]].status = "completed",
                   !.execs[e].stage = "finished"]
    ELSE [s EXCEPT !.execs[e].stage = "finished"],
    e)

\* executeSdk, the end of the async body: the terminal event unless cancelled,
\* then the registry's done.then(...).finally(() => subject.complete()).
SdkSettle(s, e, terminal) ==
  DoneSettled(IF ~s.execs[e].cancelled THEN handleSdkOutput(s, e, terminal) ELSE s, e)

\* await this.startClient() settles.
SdkClientStarted(s, e, ok) ==
  IF ok
  THEN handleSdkOutput([s EXCEPT !.client = "started", !.execs[e].stage = "creating"],
                       e, StatusCreating)
  ELSE SdkSettle([s EXCEPT !.client = "none"], e, EvError)

\* await this.createSession(...) settles.
SdkSessionCreated(s, e, ok) ==
  IF ok
  THEN handleSdkOutput([s EXCEPT !.activeSession = e, !.execs[e].stage = "sending"],
                       e, StatusStartingTask)
  ELSE SdkSettle(s, e, EvError)

\* session.on handler, an assistant.message_delta event.
SdkMessage(s, e, chunk) ==
  IF s.execs[e].cancelled THEN s ELSE handleSdkOutput(s, e, Ev("stdout", chunk))

\* await session.sendAndWait(...) settles.
SdkSendAndWaitDone(s, e, ok) ==
  SdkSettle(s, e, IF ok THEN EvComplete ELSE EvError)

\* ------------------------------------------------------------- stop
\* stopExecution that leaves a status that is already terminal as it is.
stopExecutionKeepsTerminal(s, pid) ==
  IF pid \notin DOMAIN s.runningProcesses
  THEN [threw |-> TRUE, s |-> s]
  ELSE IF s.execs[s.runningProcesses[pid]].status # "running"
  THEN [threw |-> FALSE, s |-> s]
  ELSE IF s.execs[s.runningProcesses[pid]].kind = "process"
  THEN [threw |-> FALSE,
        s |-> [s EXCEPT !.execs[s.runningProcesses[pid]].status = "stopped"]]
  ELSE [threw |-> FALSE,
        s |-> [s EXCEPT !.execs[s.runningProcesses[pid]].cancelled = TRUE,
                        !.execs[s.runningProcesses[pid]].stopping =
                          IF s.activeSession # NoSubscription
                          THEN "abort" ELSE "cancel"]]

\* AgentManager.stopExecution up to its first await; [threw, s].
stopExecution(s, pid) ==
  IF pid \notin DOMAIN s.runningProcesses
  THEN [threw |-> TRUE, s |-> s]
  ELSE LET e == s.runningProcesses[pid] IN
       IF s.execs[e].kind = "process"
       THEN [threw |-> FALSE, s |-> [s EXCEPT !.execs[e].status = "stopped"]]
       ELSE [threw |-> FALSE,
             s |-> [s EXCEPT !.execs[e].cancelled = TRUE,
                             !.execs[e].stopping =
                               IF s.activeSession # NoSubscription
                               THEN "abort" ELSE "cancel"]]

\* stopExecution after `await processInfo.cancel()`: ok, or abort() rejected.
stopExecutionResume(s, e, ok) ==
  IF ok
  THEN [s EXCEPT !.execs[e].stopping = "no", !.execs[e].status = "stopped"]
  ELSE [s EXCEPT !.execs[e].stopping = "no"]

\* PhaseOrchestrator.stopAfterCurrentTask.  stopAt is history: the index of
\* the task that was executing at the first stop request of the run (0 when
\* no task was executing).
stopAfterCurrentTask(s) ==
  [s EXCEPT !.shouldStop = TRUE,
            !.stopAt = IF s.isRunning /\ s.stopAt = -1
                       THEN (IF s.pc = "task" THEN s.idx ELSE 0)
                       ELSE @]

\* subscription.unsubscribe().
Unsubscribe(s, e) ==
  IF s.execs[e].sub = "active"
  THEN [s EXCEPT !.execs[e].sub = "unsubscribed",
                 !.execs[e].subTo = Len(s.execs[e].channel)]
  ELSE s

\* PhaseOrchestrator.forceStop.
forceStop(s) ==
  LET s1 == [s EXCEPT !.shouldStop = TRUE]
      s2 == IF s1.currentTaskSubscription # NoSubscription
            THEN Unsubscribe(s1, s1.currentTaskSubscription) ELSE s1
  IN IF s2.currentProcessId # NoProcessId
     THEN stopExecution(s2, s2.currentProcessId).s
     ELSE s2

\* ------------------------------------------------------------- executePhase
\* executePhase past the single-flight guard, up to the await of syncContext.
\* An executePhase that leaves shouldStop as it finds it.
executePhaseKeepsStop(s, agentId, projectPath) ==
  [s EXCEPT !.isRunning = TRUE, !.pc = "sync",
            !.options = [agentId |-> agentId, projectPath |-> projectPath],
            !.results = <<>>, !.pendingTasks = <<>>, !.idx = 0,
            !.lastResult = NoResult, !.outcome = "running", !.stopAt = -1,
            !.phaseCompletes = 0]

executePhase(s, agentId, projectPath) ==
  [s EXCEPT !.isRunning = TRUE, !.shouldStop = FALSE, !.pc = "sync",
            !.options = [agentId |-> agentId, projectPath |-> projectPath],
            !.results = <<>>, !.pendingTasks = <<>>, !.idx = 0,
            !.lastResult = NoResult, !.outcome = "running", !.stopAt = -1,
            !.phaseCompletes = 0]

\* The single-flight guard placed inside the try block: the finally block
\* runs for the rejected call.
executePhaseRejectedInTry(s) == Finally(s)

\* executePhase while a run is in progress: throws before the try block.
executePhaseRejected(s) == s

\* await ContextBridge.syncContext(...) returns.
syncContextDone(s) == [s EXCEPT !.pc = "fetch"]

\* await SyncService.fetchTasksByPhase(...) returns n pending tasks.
fetchTasksDone(s, n) ==
  LET s1 == [s EXCEPT !.pendingTasks = [j \in 1..n |-> j]] IN
  IF n = 0
  THEN ReturnPhase(s1, PhaseResultOf(<<>>, FALSE))
  ELSE RunLoop(s1, 1)

\* await SyncService.fetchTasksByPhase(...) throws.
fetchTasksFailed(s) == ThrowPhase(s)

\* A catch handler of the push that asks the run to stop.
updateTaskStatusRejectedStops(s, k) ==
  [s EXCEPT !.failedPushes = @ \cup {k}, !.shouldStop = TRUE]

\* SyncService.updateTaskStatus(...).catch(err => console.error(...)): the
\* promise of push k was rejected. failedPushes is history.
updateTaskStatusRejected(s, k) == [s EXCEPT !.failedPushes = @ \cup {k}]

\* ------------------------------------------------------------- ipc handlers
\* agents:executeTest: processId = <agentId>-<task.id>-<Date.now()>; taskId 0
\* stands for a request without taskId.
TestProcessId(agentId, taskId, t) == <<agentId, taskId, t>>

\* observable.subscribe({next, error, complete}) on the stream of the last
\* execution of s: a stream that has already failed calls the error callback
\* at once.
TestSubscribe(s) ==
  IF s.execs[Len(s.execs)].subj = "errored"
  THEN TestError([s EXCEPT !.execs[Len(s.execs)].sub = "notified",
                           !.execs[Len(s.execs)].observer = "test",
                           !.execs[Len(s.execs)].subFrom =
                             Len(s.execs[Len(s.execs)].channel)],
                 Len(s.execs))
  ELSE [s EXCEPT !.execs[Len(s.execs)].sub = "active",
                 !.execs[Len(s.execs)].observer = "test",
                 !.execs[Len(s.execs)].subFrom = Len(s.execs[Len(s.execs)].channel)]

\* agents:executeTest after agentManager.executeTask returned r: the catch
\* block marks the record failed and rethrows, otherwise the handler
\* subscribes and returns the processId.
AfterTestDispatch(r, call) ==
  IF r.threw
  THEN [r.s EXCEPT !.executionLogs =
                     IF call.taskId # 0
                     THEN setExecutionMeta(@, call.taskId, NoProcessId, "failed", r.s.now)
                     ELSE @,
                   !.testCall = NoCall,
                   !.reply = [op |-> "executeTest", processId |-> call.processId,
                              threw |-> TRUE]]
  ELSE [TestSubscribe(r.s) EXCEPT
          !.testCall = NoCall,
          !.reply = [op |-> "executeTest", processId |-> call.processId,
                     threw |-> FALSE]]

\* agents:executeTest from the try block on.
executeTestDispatch(s, call) ==
  AfterTestDispatch(AgentManager_executeTask(s, call.agentId, call.taskId, 0,
                                             call.processId, call.projectPath),
                    call)

\* agents:executeTest up to its first await: with a taskId the record gets the
\* processId and status running and the in_progress push is awaited; without
\* one the handler goes on to dispatch at once.
executeTest(s, agentId, taskId, projectPath) ==
  IF taskId # 0
  THEN [s EXCEPT !.executionLogs =
                   setExecutionMeta(@, taskId,
                                    TestProcessId(agentId, taskId, s.now), "running",
                                    s.now),
                 !.pushes = Append(@, <<taskId, "in_progress">>),
                 !.testCall = [agentId |-> agentId, taskId |-> taskId,
                               processId |-> TestProcessId(agentId, taskId, s.now),
                               projectPath |-> projectPath]]
  ELSE executeTestDispatch(s, [agentId |-> agentId, taskId |-> taskId,
                               processId |-> TestProcessId(agentId, taskId, s.now),
                               projectPath |-> projectPath])

\* AgentManager.getExecutionStatus: processInfo?.status ?? null
getExecutionStatus(s, pid) ==
  IF pid \in DOMAIN s.runningProcesses
  THEN s.execs[s.runningProcesses[pid]].status ELSE NULL

\* logs:getStatus with the persisted status preferred over the live one.
getStatusPersistedFirst(s, taskId) ==
  [processId |-> PrevProcessId(s.executionLogs, taskId),
   status |-> IF PrevStatus(s.executionLogs, taskId) # NULL
              THEN PrevStatus(s.executionLogs, taskId)
              ELSE IF PrevProcessId(s.executionLogs, taskId) # NoProcessId
              THEN getExecutionStatus(s, PrevProcessId(s.executionLogs, taskId))
              ELSE NULL]

\* logs:getStatus: processId = meta?.processId || null; agentStatus =
\* processId ? getExecutionStatus(processId) : null; status = agentStatus ??
\* meta?.status ?? null.
getStatus(s, taskId) ==
  [processId |-> PrevProcessId(s.executionLogs, taskId),
   status |-> IF PrevProcessId(s.executionLogs, taskId) # NoProcessId
                 /\ getExecutionStatus(s, PrevProcessId(s.executionLogs, taskId)) # NULL
              THEN getExecutionStatus(s, PrevProcessId(s.executionLogs, taskId))
              ELSE PrevStatus(s.executionLogs, taskId)]

\* ------------------------------------------------------------- actions
envUnchanged == UNCHANGED <<now, nchunks, rejected, runs>>

ExecutePhase ==
  /\ ~isRunning
  /\ runs < MaxRuns
  /\ \E o \in RunInputs : Apply(executePhase(State, o[1], o[2]))
  /\ runs' = runs + 1
  /\ UNCHANGED <<now, nchunks, rejected>>

ExecutePhaseRejected ==
  /\ isRunning
  /\ rejected < MaxRejected
  /\ rejected' = rejected + 1
  /\ Apply(executePhaseRejected(State))
  /\ UNCHANGED <<now, nchunks, runs>>

SyncContextDone ==
  /\ pc = "sync"
  /\ Apply(syncContextDone(State))
  /\ envUnchanged

FetchTasksDone ==
  /\ pc = "fetch"
  /\ \E n \in 0..MaxTasks :
       Apply(fetchTasksDone(State, n))
  /\ envUnchanged

FetchTasksFailed ==
  /\ pc = "fetch"
  /\ Apply(fetchTasksFailed(State))
  /\ envUnchanged

StopAfterCurrentTask ==
  /\ Apply(stopAfterCurrentTask(State))
  /\ envUnchanged

ForceStop ==
  /\ Apply(forceStop(State))
  /\ envUnchanged

\* An execution whose child process or session round trip has not ended.
Live(x) == x.stage \in {"running", "starting", "creating", "sending"}

\* The agents:stop request of the user interface, for a live execution.
StopExecution ==
  /\ \E pid \in DOMAIN runningProcesses :
       /\ Live(execs[runningProcesses[pid]])
       /\ execs[runningProcesses[pid]].status = "running"
       /\ Apply(stopExecution(State, pid).s)
  /\ envUnchanged

StopExecutionResume ==
  /\ \E e \in DOMAIN execs :
       /\ execs[e].stopping # "no"
       /\ \E ok \in BOOLEAN :
            /\ (~ok => execs[e].stopping = "abort")
            /\ Apply(stopExecutionResume(State, e, ok))
  /\ envUnchanged

ProcData ==
  /\ nchunks < MaxChunks
  /\ \E e \in DOMAIN execs :
       /\ execs[e].kind = "process"
       /\ execs[e].stage = "running"
       /\ \E o \in ProcOutputs : Apply(ChildData(State, e, o[1], o[2]))
       /\ nchunks' = IF SubjectAccepts(execs[e]) THEN nchunks + 1 ELSE nchunks
  /\ UNCHANGED <<now, rejected, runs>>

ProcClose ==
  /\ \E e \in DOMAIN execs :
       /\ execs[e].kind = "process"
       /\ execs[e].stage = "running"
       /\ \E code \in {0, 1} : Apply(ChildClose(State, e, code))
  /\ envUnchanged

ProcError ==
  /\ \E e \in DOMAIN execs :
       /\ execs[e].kind = "process"
       /\ execs[e].stage = "running"
       /\ ~execs[e].errorFired
       /\ Apply(ChildError(State, e))
  /\ envUnchanged

SdkStart ==
  /\ \E e \in DOMAIN execs :
       /\ execs[e].kind = "cancel"
       /\ execs[e].stage = "starting"
       /\ \E ok \in BOOLEAN : Apply(SdkClientStarted(State, e, ok))
  /\ envUnchanged

SdkCreate ==
  /\ \E e \in DOMAIN execs :
       /\ execs[e].kind = "cancel"
       /\ execs[e].stage = "creating"
       /\ \E ok \in BOOLEAN : Apply(SdkSessionCreated(State, e, ok))
  /\ envUnchanged

SdkEvent ==
  /\ nchunks < MaxChunks
  /\ \E e \in DOMAIN execs :
       /\ execs[e].kind = "cancel"
       /\ execs[e].stage = "sending"
       /\ \E c \in Chunks : Apply(SdkMessage(State, e, c))
  /\ nchunks' = nchunks + 1
  /\ UNCHANGED <<now, rejected, runs>>

SdkDone ==
  /\ \E e \in DOMAIN execs :
       /\ execs[e].kind = "cancel"
       /\ execs[e].stage = "sending"
       /\ \E ok \in BOOLEAN : Apply(SdkSendAndWaitDone(State, e, ok))
  /\ envUnchanged

\* Date.now() advances; its value is read when an execution is dispatched.
Tick ==
  /\ ~isRunning
  /\ runs >= 1
  /\ now < MaxClock
  /\ now' = now + 1
  /\ UNCHANGED <<progVars, nchunks, rejected, runs>>

Next ==
  \/ ExecutePhase
  \/ ExecutePhaseRejected
  \/ SyncContextDone
  \/ FetchTasksDone
  \/ FetchTasksFailed
  \/ StopAfterCurrentTask
  \/ ForceStop
  \/ StopExecution
  \/ StopExecutionResume
  \/ ProcData
  \/ ProcClose
  \/ ProcError
  \/ SdkStart
  \/ SdkCreate
  \/ SdkEvent
  \/ SdkDone
  \/ Tick

Spec == Init /\ [][Next]_vars

\* ------------------------------------------------------------- phase runs with failing pushes
ExecutePhaseOnce ==
  /\ ~isRunning
  /\ runs < MaxPushRuns
  /\ \E o \in RunInputs : Apply(executePhase(State, o[1], o[2]))
  /\ runs' = runs + 1
  /\ UNCHANGED <<now, nchunks, rejected>>

\* The backend rejects a push that has been sent; the push is not awaited,
\* so the rejection can arrive at any later time.
PushRejected ==
  /\ Cardinality(failedPushes) < MaxPushFails
  /\ \E k \in (1..Len(pushes)) \ failedPushes :
       Apply(updateTaskStatusRejected(State, k))
  /\ envUnchanged

NextPush ==
  \/ ExecutePhaseOnce
  \/ PushRejected
  \/ SyncContextDone
  \/ FetchTasksDone
  \/ FetchTasksFailed
  \/ StopAfterCurrentTask
  \/ ForceStop
  \/ StopExecution
  \/ StopExecutionResume
  \/ ProcData
  \/ ProcClose
  \/ ProcError
  \/ SdkStart
  \/ SdkCreate
  \/ SdkEvent
  \/ SdkDone

PushSpec == Init /\ [][NextPush]_vars

\* ------------------------------------------------------------- the pushes at the Task Store
\* SyncService.updateTaskStatus: the PATCH request of push k reaches the
\* backend, which sets the status of the task. applied lists the pushes in the
\* order in which the backend applied them.
updateTaskStatusApplied(s, k) == [s EXCEPT !.applied = Append(@, k)]

\* The pushes the backend has applied.
AppliedPushes == {applied[j] : j \in 1..Len(applied)}

\* A push is a request of its own and nobody awaits it: the requests in
\* flight reach the backend in any order.
PushApplied ==
  /\ \E k \in ((1..Len(pushes)) \ AppliedPushes) \ failedPushes :
       Apply(updateTaskStatusApplied(State, k))
  /\ envUnchanged

NextStore ==
  \/ ExecutePhaseOnce
  \/ SyncContextDone
  \/ FetchTasksDone
  \/ ProcData
  \/ ProcClose
  \/ ProcError
  \/ PushApplied

StoreSpec == Init /\ [][NextStore]_vars

\* ------------------------------------------------------------- the client of the session adapter
\* The calls of startClient, createSession and stopClient made on the adapter.
MaxClientCalls == 3

\* adapter.calls holds one record per call: its position (pc), whether
\* this.client was set when it was made (sawClient) and whether it has
\* constructed a CopilotClient (created).
NewCall(s, op) ==
  [s EXCEPT !.adapter.calls =
     Append(@, [op |-> op, pc |-> "called", sawClient |-> s.client # "none",
                created |-> FALSE])]

CallAt(s, c, at) == [s EXCEPT !.adapter.calls[c].pc = at]

\* startClient has returned: a call of startClient is over, createSession
\* goes on to defineTools and `await this.buildSystemMessageWithContext(...)`.
AfterStartClient(s, c) ==
  CallAt(s, c, IF s.adapter.calls[c].op = "startClient" THEN "returned" ELSE "context")

\* The catch block of startClient: this.client = null; throw error.
StartClientThrew(s, c) == CallAt([s EXCEPT !.client = "none"], c, "threw")

\* startClient up to `await this.client.start()`; found is the outcome of
\* isInstalled (execSync of `copilot --version`), run when isCliAvailable is
\* not set.
startClient(s, c, found) ==
  IF s.client # "none"
  THEN AfterStartClient(s, c)
  ELSE IF ~(s.adapter.isCliAvailable \/ found)
  THEN StartClientThrew([s EXCEPT !.adapter.isCliAvailable = FALSE], c)
  ELSE [s EXCEPT !.client = "created",
                 !.adapter.isCliAvailable = TRUE,
                 !.adapter.calls[c].pc = "starting",
                 !.adapter.calls[c].created = TRUE]

\* await this.client.start() settles.
startClientSettled(s, c, ok) ==
  IF ok
  THEN AfterStartClient([s EXCEPT !.client = IF @ = "created" THEN "started" ELSE @], c)
  ELSE StartClientThrew(s, c)

\* createSession up to its first await: `if (!this.client) await this.startClient()`.
createSession(s, c, found) ==
  IF s.client = "none" THEN startClient(s, c, found) ELSE CallAt(s, c, "context")

\* createSession after the system message is built: this.client!.createSession(...)
\* throws a TypeError when this.client is null.
createSessionContextBuilt(s, c) ==
  CallAt(s, c, IF s.client = "none" THEN "threw" ELSE "creating")

\* await this.client!.createSession(...) settles: this.activeSession = session.
createSessionSettled(s, c, ok) ==
  IF ok THEN CallAt([s EXCEPT !.activeSession = c], c, "returned")
  ELSE CallAt(s, c, "threw")

\* stopClient from `if (this.client)` on.
stopClientAfterDestroy(s, c) ==
  CallAt(s, c, IF s.client # "none" THEN "stopping" ELSE "returned")

\* stopClient up to its first await.
stopClient(s, c) ==
  IF s.activeSession # NoSubscription
  THEN CallAt(s, c, "destroying")
  ELSE stopClientAfterDestroy(s, c)

\* await this.activeSession.destroy() settles; a rejection leaves stopClient.
stopClientDestroySettled(s, c, ok) ==
  IF ok THEN stopClientAfterDestroy([s EXCEPT !.activeSession = NoSubscription], c)
  ELSE CallAt(s, c, "threw")

\* await this.client.stop() settles: this.client = null.
stopClientStopSettled(s, c) == CallAt([s EXCEPT !.client = "none"], c, "returned")

CallMade == Len(adapter.calls) < MaxClientCalls

StartClientCall ==
  /\ CallMade
  /\ \E found \in BOOLEAN :
       Apply(startClient(NewCall(State, "startClient"), Len(adapter.calls) + 1, found))
  /\ envUnchanged

CreateSessionCall ==
  /\ CallMade
  /\ \E found \in BOOLEAN :
       Apply(createSession(NewCall(State, "createSession"), Len(adapter.calls) + 1,
                           found))
  /\ envUnchanged

StopClientCall ==
  /\ CallMade
  /\ Apply(stopClient(NewCall(State, "stopClient"), Len(adapter.calls) + 1))
  /\ envUnchanged

ClientStartSettles ==
  /\ \E c \in DOMAIN adapter.calls :
       /\ adapter.calls[c].pc = "starting"
       /\ \E ok \in BOOLEAN : Apply(startClientSettled(State, c, ok))
  /\ envUnchanged

ContextBuilt ==
  /\ \E c \in DOMAIN adapter.calls :
       /\ adapter.calls[c].pc = "context"
       /\ Apply(createSessionContextBuilt(State, c))
  /\ envUnchanged

\* The client creates a session only when it is started and is not being
\* stopped; otherwise the request is rejected.
CreateSessionSettles ==
  /\ \E c \in DOMAIN adapter.calls :
       /\ adapter.calls[c].pc = "creating"
       /\ \E ok \in BOOLEAN :
            /\ ok => /\ client = "started"
                      /\ \A d \in DOMAIN adapter.calls :
                           adapter.calls[d].pc # "stopping"
            /\ Apply(createSessionSettled(State, c, ok))
  /\ envUnchanged

DestroySettles ==
  /\ \E c \in DOMAIN adapter.calls :
       /\ adapter.calls[c].pc = "destroying"
       /\ \E ok \in BOOLEAN : Apply(stopClientDestroySettled(State, c, ok))
  /\ envUnchanged

StopSettles ==
  /\ \E c \in DOMAIN adapter.calls :
       /\ adapter.calls[c].pc = "stopping"
       /\ Apply(stopClientStopSettled(State, c))
  /\ envUnchanged

NextClient ==
  \/ StartClientCall
  \/ CreateSessionCall
  \/ StopClientCall
  \/ ClientStartSettles
  \/ ContextBuilt
  \/ CreateSessionSettles
  \/ DestroySettles
  \/ StopSettles

ClientSpec == Init /\ [][NextClient]_vars

\* ------------------------------------------------------------- one phase run while the clock advances
\* Date.now() advances during a run.
TickRunning ==
  /\ isRunning
  /\ now < MaxClock
  /\ now' = now + 1
  /\ UNCHANGED <<progVars, nchunks, rejected, runs>>

NextRun ==
  \/ ExecutePhaseOnce
  \/ SyncContextDone
  \/ FetchTasksDone
  \/ FetchTasksFailed
  \/ StopAfterCurrentTask
  \/ ForceStop
  \/ StopExecutionResume
  \/ ProcData
  \/ ProcClose
  \/ ProcError
  \/ SdkStart
  \/ SdkCreate
  \/ SdkEvent
  \/ SdkDone
  \/ TickRunning

RunSpec == Init /\ [][NextRun]_vars

\* ------------------------------------------------------------- one phase run with blockers in the output
Filler == <<>> \o [k \in 1..60 |-> "word"]
ChunkIndented == << <<"", "", "Cannot", "proceed", "">>, <<"BLOCKED:", "later">> >>
ChunkLong == << <<"step">>, <<"", "unable", "to", "continue">> \o Filler >>
BlockerChunks == {ChunkOk, ChunkBlocked, ChunkIndented, ChunkLong}

SdkBlockerEvent ==
  /\ nchunks < MaxChunks
  /\ \E e \in DOMAIN execs :
       /\ execs[e].kind = "cancel"
       /\ execs[e].stage = "sending"
       /\ \E c \in BlockerChunks : Apply(SdkMessage(State, e, c))
  /\ nchunks' = nchunks + 1
  /\ UNCHANGED <<now, rejected, runs>>

ProcBlockerData ==
  /\ nchunks < MaxChunks
  /\ \E e \in DOMAIN execs :
       /\ execs[e].kind = "process"
       /\ execs[e].stage = "running"
       /\ \E stream \in {"stdout", "stderr"} : \E c \in BlockerChunks :
            Apply(ChildData(State, e, stream, c))
       /\ nchunks' = IF SubjectAccepts(execs[e]) THEN nchunks + 1 ELSE nchunks
  /\ UNCHANGED <<now, rejected, runs>>

NextBlocker ==
  \/ ExecutePhaseOnce
  \/ SyncContextDone
  \/ FetchTasksDone
  \/ FetchTasksFailed
  \/ StopAfterCurrentTask
  \/ ForceStop
  \/ ProcBlockerData
  \/ ProcClose
  \/ ProcError
  \/ SdkStart
  \/ SdkCreate
  \/ SdkBlockerEvent
  \/ SdkDone

BlockerSpec == Init /\ [][NextBlocker]_vars

\* ------------------------------------------------------------- tool calls of a session
MaxToolCalls == 2

\* Command output of n characters, as character codes.
Text(n) == <<>> \o [k \in 1..n |-> 1000 + (k % 50)]
Padded(s) == <<32, 10>> \o s \o <<32, 10>>
Coloured(s) == <<27, 91, 51, 49, 109>> \o s \o <<27, 91, 48, 109>>
StdoutTexts ==
  {<<>>, Coloured(Text(3)), Text(20000), Padded(Text(20001)), Text(50000)}
ExecOutcomes ==
  {[ok |-> TRUE, stdout |-> t, stderr |-> Text(3), message |-> <<>>] :
     t \in StdoutTexts}
    \cup {[ok |-> FALSE, stdout |-> Text(3), stderr |-> <<>>,
            message |-> Text(8001)],
           [ok |-> FALSE, stdout |-> Text(20001), stderr |-> Text(3),
            message |-> Text(8000)]}

Str_src_a_ts == <<"s", "r", "c", "/", "a", ".", "t", "s">>
Str_src_new_c_ts == <<"s", "r", "c", "/", "n", "e", "w", "/", "c", ".", "t", "s">>
Str_src_a == <<"s", "r", "c", "/", "a">>
Str_src == <<"s", "r", "c">>
Str_up_out_ts == <<".", ".", "/", "o", "u", "t", ".", "t", "s">>
Str_up_etc_x == <<".", ".", "/", "e", "t", "c", "/", "x">>
Str_up_etc == <<".", ".", "/", "e", "t", "c">>
Str_missing == <<"n", "o", "n", "e">>
FilePaths == {Str_src_a_ts, Str_src_new_c_ts, Str_src_a, Str_up_out_ts, Str_up_etc_x}
DirPaths == {<<".">>, Str_src, Str_missing, Str_up_etc}

Glob_src_deep_ts == <<"s", "r", "c", "/", "*", "*", "/", "*", ".", "t", "s">>
Glob_deep_ts == <<"*", "*", "/", "*", ".", "t", "s">>
Glob_src_star == <<"s", "r", "c", "/", "*">>
Glob_src_q_ts == <<"s", "r", "c", "/", "?", ".", "t", "s">>
Glob_src_a_star == <<"s", "r", "c", "/", "a", "*">>
Glob_bracket == <<"s", "r", "c", "/", "[", "a">>
GlobPatterns ==
  {Glob_src_deep_ts, Glob_deep_ts, Glob_src_star, Glob_src_q_ts, Glob_src_a_star,
   Glob_bracket}

ToolCalled ==
  /\ runs < MaxToolCalls
  /\ runs' = runs + 1
  /\ UNCHANGED <<now, nchunks, rejected>>

ToolEditFile ==
  /\ ToolCalled
  /\ \E filePath \in FilePaths : \E createDirectories \in BOOLEAN :
       \E fault \in BOOLEAN :
         Apply(ToolReturn(State, filePath, <<>>,
                          edit_file(fsys, filePath, createDirectories, fault)))

ToolReadFile ==
  /\ ToolCalled
  /\ \E filePath \in FilePaths : \E fault \in BOOLEAN :
       Apply(ToolReturn(State, filePath, <<>>, read_file(fsys, filePath, fault)))

ToolRunCommand ==
  /\ ToolCalled
  /\ \E cwd \in {<<>>, Str_up_etc, Str_missing} : \E x \in ExecOutcomes :
       Apply(ToolReturn(State, cwd, execAsync(fsys, path_join(ProjectPath, cwd), x),
                        run_command(fsys, cwd, x)))

ToolListFiles ==
  /\ ToolCalled
  /\ \E dirPath \in DirPaths : \E recursive \in BOOLEAN : \E maxDepth \in {0, 3} :
       \E fault \in BOOLEAN :
         Apply(ToolReturn(State, dirPath, <<>>,
                          list_files(fsys, dirPath, recursive, maxDepth, fault)))

ToolDeleteFile ==
  /\ ToolCalled
  /\ \E filePath \in FilePaths : \E fault \in BOOLEAN :
       Apply(ToolReturn(State, filePath, <<>>, delete_file(fsys, filePath, fault)))

ToolSearchCode ==
  /\ ToolCalled
  /\ \E searchPath \in DirPaths : \E patternValid \in BOOLEAN : \E rgOk \in BOOLEAN :
       Apply(ToolReturn(State, searchPath, <<>>,
                        search_code(fsys, patternValid, searchPath, rgOk)))

ToolFindFiles ==
  /\ ToolCalled
  /\ \E pattern \in GlobPatterns : \E fault \in BOOLEAN :
       Apply(ToolReturn(State, <<>>, pattern, find_files(fsys, pattern, fault)))

ToolApplyPatch ==
  /\ ToolCalled
  /\ \E filePath \in FilePaths : \E fault \in BOOLEAN :
       Apply(ToolReturn(State, filePath, <<>>, apply_patch(fsys, filePath, fault)))

ToolWebSearch ==
  /\ ToolCalled
  /\ \E ok \in BOOLEAN :
       Apply(ToolReturn(State, <<>>, <<>>, collab_web_search(fsys, ok)))

ToolWebFetch ==
  /\ ToolCalled
  /\ \E ok \in BOOLEAN : Apply(ToolReturn(State, <<>>, <<>>, web_fetch(fsys, ok)))

ToolTodoWrite ==
  /\ ToolCalled
  /\ \E fault \in BOOLEAN :
       Apply(ToolReturn(State, <<>>, <<>>, todo_write(fsys, fault)))

NextTool ==
  \/ ToolEditFile
  \/ ToolReadFile
  \/ ToolRunCommand
  \/ ToolListFiles
  \/ ToolDeleteFile
  \/ ToolSearchCode
  \/ ToolFindFiles
  \/ ToolApplyPatch
  \/ ToolWebSearch
  \/ ToolWebFetch
  \/ ToolTodoWrite

ToolSpec == Init /\ [][NextTool]_vars

\* ------------------------------------------------------------- single-task runs and the log store
\* The requests of the user interface: task ids of agents:executeTest (0: no
\* taskId given), task ids of the logs:* requests, output lists of logs:set
\* and a processId the registry never tracked.
TestTaskIds == {0, 1}
LogTaskIds == {1, 2}
LogOutputs == {<<>>, <<EvComplete>>}
UntrackedPid == <<"none", 0, 0>>

ExecuteTest ==
  /\ testCall = NoCall
  /\ runs < MaxTests
  /\ \E o \in RunInputs : \E taskId \in TestTaskIds :
       Apply(executeTest(State, o[1], taskId, o[2]))
  /\ runs' = runs + 1
  /\ UNCHANGED <<now, nchunks, rejected>>

\* await SyncService.updateTaskStatus(realTaskId, 'in_progress') settles.
ExecuteTestDispatch ==
  /\ testCall # NoCall
  /\ Apply(executeTestDispatch(State, testCall))
  /\ envUnchanged

\* agents:stop: the reply of a call that ends without waiting.
StopReply(r, pid) ==
  IF r.threw \/ r.s.execs[r.s.runningProcesses[pid]].stopping = "no"
  THEN [r.s EXCEPT !.reply = [op |-> "stop", processId |-> pid, threw |-> r.threw]]
  ELSE r.s

\* agents:stop for any processId, tracked or not, whatever its status.
AgentsStop ==
  /\ \E pid \in (DOMAIN runningProcesses) \cup {UntrackedPid} :
       /\ pid \in DOMAIN runningProcesses
            => execs[runningProcesses[pid]].stopping = "no"
       /\ Apply(StopReply(stopExecution(State, pid), pid))
  /\ envUnchanged

\* agents:stop after `await processInfo.cancel()`.
AgentsStopReturn ==
  /\ \E e \in DOMAIN execs :
       /\ execs[e].stopping # "no"
       /\ \E ok \in BOOLEAN :
            /\ (~ok => execs[e].stopping = "abort")
            /\ Apply([stopExecutionResume(State, e, ok) EXCEPT
                        !.reply = [op |-> "stop", processId |-> execs[e].pid,
                                   threw |-> ~ok]])
  /\ envUnchanged

LogsSet ==
  /\ \E taskId \in LogTaskIds : \E outputs \in LogOutputs :
       Apply([State EXCEPT !.executionLogs = setExecutionLogs(@, taskId, outputs, now)])
  /\ envUnchanged

LogsClear ==
  /\ \E taskId \in LogTaskIds :
       Apply([State EXCEPT !.executionLogs = clearExecutionLogs(@, taskId)])
  /\ envUnchanged

LogsGetStatus ==
  /\ \E taskId \in LogTaskIds :
       Apply([State EXCEPT !.reply = [op |-> "getStatus", taskId |-> taskId,
                                      result |-> getStatus(State, taskId)]])
  /\ envUnchanged

\* The application restarts: the memory of the main process is lost, the
\* store on disk and the statuses pushed to the backend are kept.
Restarted(s) ==
  [s EXCEPT !.isRunning = FALSE, !.shouldStop = FALSE,
            !.currentTaskSubscription = NoSubscription,
            !.currentProcessId = NoProcessId, !.pc = "idle",
            !.options = [agentId |-> NULL, projectPath |-> NULL],
            !.pendingTasks = <<>>, !.idx = 0, !.results = <<>>,
            !.blockerDetected = FALSE, !.blockerReason = NoReason,
            !.lastResult = NoResult, !.outcome = "none", !.stopAt = -1,
            !.runningProcesses = <<>>, !.execs = <<>>, !.client = "none",
            !.activeSession = NoSubscription, !.testCall = NoCall,
            !.reply = NoReply, !.phaseCompletes = 0]

Restart ==
  /\ Apply(Restarted(State))
  /\ envUnchanged

\* Date.now() advances between the calls of the store.
LogTick ==
  /\ now < MaxClock
  /\ now' = now + 1
  /\ UNCHANGED <<progVars, nchunks, rejected, runs>>

NextLog ==
  \/ LogTick
  \/ ExecuteTest
  \/ ExecuteTestDispatch
  \/ AgentsStop
  \/ AgentsStopReturn
  \/ LogsSet
  \/ LogsClear
  \/ LogsGetStatus
  \/ Restart
  \/ ProcData
  \/ ProcClose
  \/ ProcError
  \/ SdkStart
  \/ SdkCreate
  \/ SdkEvent
  \/ SdkDone

LogSpec == Init /\ [][NextLog]_vars

\* ------------------------------------------------------------- tool events of a session
\* The tools of a session, in the order of defineTools; the k-th tool call of
\* the model calls the k-th tool.
ToolNames ==
  <<"edit_file", "read_file", "run_command", "list_files", "delete_file",
    "search_code", "find_files", "apply_patch", "collab_web_search", "web_fetch",
    "todo_write">>

\* AgentManager.formatToolStatus
formatToolStatus(type, toolName) ==
  CASE type = "tool_start" -> << <<toolName, "started">> >>
    [] type = "tool_end" -> << <<toolName, "completed">> >>
    [] type = "tool_error" -> << <<toolName, "failed:", "Unknown", "error">> >>
    [] OTHER -> << <<toolName>> >>

\* handleToolEvent of execution e: the status line, then the tool event.
handleToolEvent(s, e, type, toolName) ==
  Subject_next(Subject_next(s, e, Ev("status", formatToolStatus(type, toolName))),
               e, Ev(type, formatToolStatus(type, toolName)))

\* The tool call c of the session has reached the stage `stage`.
ToolCallAt(s, c, stage) == [s EXCEPT !.toolCalls[c].stage = stage]

\* The session calls the handler of a tool defined by defineTools: the handler
\* emits tool_start and goes on to its first await.
ToolHandlerCalled(s, e) ==
  handleToolEvent(
    [s EXCEPT !.toolCalls = Append(@, [exec |-> e, custom |-> TRUE,
                                       stage |-> "started"])],
    e, "tool_start", ToolNames[Len(s.toolCalls) + 1])

\* The handler's try block ends (ok) or throws: tool_end, or tool_error from
\* the catch block.
ToolHandlerReturned(s, c, ok) ==
  handleToolEvent(ToolCallAt(s, c, "done"), s.toolCalls[c].exec,
                  IF ok THEN "tool_end" ELSE "tool_error", ToolNames[c])

\* session.on handler, a tool.execution_start event of a tool of the session
\* that has no handler in defineTools.
SdkToolExecutionStart(s, e) ==
  IF s.execs[e].cancelled
  THEN [s EXCEPT !.toolCalls = Append(@, [exec |-> e, custom |-> FALSE,
                                          stage |-> "started"])]
  ELSE handleToolEvent(
         [s EXCEPT !.toolCalls = Append(@, [exec |-> e, custom |-> FALSE,
                                            stage |-> "started"])],
         e, "tool_start", ToolNames[Len(s.toolCalls) + 1])

\* session.on handler, the event that ends the call: tool.execution_complete
\* (success not false: tool_end, else tool_error) or tool.execution_error.
SdkToolExecutionComplete(s, c, event, success) ==
  IF s.execs[s.toolCalls[c].exec].cancelled
  THEN ToolCallAt(s, c, "done")
  ELSE handleToolEvent(ToolCallAt(s, c, "done"), s.toolCalls[c].exec,
                       IF event = "tool.execution_complete" /\ success
                       THEN "tool_end" ELSE "tool_error",
                       ToolNames[c])

\* The session makes a tool call while sendAndWait is pending.
ToolCallMade(e) ==
  /\ Len(toolCalls) < MaxToolCalls
  /\ Len(toolCalls) < Len(ToolNames)
  /\ execs[e].kind = "cancel"
  /\ execs[e].stage = "sending"

ToolHandlerCall ==
  /\ \E e \in DOMAIN execs :
       /\ ToolCallMade(e)
       /\ Apply(ToolHandlerCalled(State, e))
  /\ envUnchanged

\* The handler is a function of this program: it ends whenever its awaits
\* settle, whatever has happened to the session meanwhile.
ToolHandlerReturn ==
  /\ \E c \in DOMAIN toolCalls :
       /\ toolCalls[c].custom
       /\ toolCalls[c].stage = "started"
       /\ \E ok \in BOOLEAN : Apply(ToolHandlerReturned(State, c, ok))
  /\ envUnchanged

SdkToolStart ==
  /\ \E e \in DOMAIN execs :
       /\ ToolCallMade(e)
       /\ Apply(SdkToolExecutionStart(State, e))
  /\ envUnchanged

\* The events of a session arrive while its sendAndWait is pending.
SdkToolComplete ==
  /\ \E c \in DOMAIN toolCalls :
       /\ ~toolCalls[c].custom
       /\ toolCalls[c].stage = "started"
       /\ execs[toolCalls[c].exec].stage = "sending"
       /\ \E ev \in {<<"tool.execution_complete", TRUE>>,
                     <<"tool.execution_complete", FALSE>>,
                     <<"tool.execution_error", FALSE>>} :
            Apply(SdkToolExecutionComplete(State, c, ev[1], ev[2]))
  /\ envUnchanged

\* await session.sendAndWait(...) settles: it resolves when the session has
\* no tool call in progress, and rejects (sessionTimeoutMs, abort, a failure of
\* the connection) at any time.
SdkToolsDone ==
  /\ \E e \in DOMAIN execs :
       /\ execs[e].kind = "cancel"
       /\ execs[e].stage = "sending"
       /\ \E ok \in BOOLEAN :
            /\ ok => \A c \in DOMAIN toolCalls :
                       toolCalls[c].exec = e => toolCalls[c].stage = "done"
            /\ Apply(SdkSendAndWaitDone(State, e, ok))
  /\ envUnchanged

NextToolEvent ==
  \/ ExecuteTest
  \/ ExecuteTestDispatch
  \/ AgentsStop
  \/ AgentsStopReturn
  \/ SdkStart
  \/ SdkCreate
  \/ SdkToolsDone
  \/ ToolHandlerCall
  \/ ToolHandlerReturn
  \/ SdkToolStart
  \/ SdkToolComplete

ToolEventSpec == Init /\ [][NextToolEvent]_vars

\* ------------------------------------------------------------- properties
\* Positions of the terminal events (complete, error) in a sequence of events.
Terminals(ch) == {k \in 1..Len(ch) : IsTerminal(ch[k])}

\* Some event of the sequence carries text that matches a blocker pattern.
HasBlocker(ch) == \E k \in 1..Len(ch) : detectBlocker(ch[k].data)

IsExecutedStatus(st) == st \in {"completed", "failed", "blocked"}

\* C1: every execution dispatched through the one-shot path (adapter.execute)
\* has no terminal event on its stream while the stream is open and exactly
\* one, as the last event, once it has ended, whatever the order of the
\* child's data, close and error callbacks; the consumer of a spawned child
\* that was notified of the end has received exactly one terminal event, last.
C1_OneShotOneTerminal ==
  \A e \in DOMAIN execs :
    LET x == execs[e]
        ch == x.channel
        d == Delivered(x)
    IN x.kind # "cancel" =>
         /\ Cardinality(Terminals(ch)) = IF x.subj = "open" THEN 0 ELSE 1
         /\ Terminals(ch) \subseteq {Len(ch)}
         /\ Terminals(d) \subseteq {Len(d)}
         /\ (x.kind = "process" /\ x.sub = "notified") => Terminals(d) = {Len(d)}

\* C1 witness: a child process delivered data, then fired 'error' and then
\* 'close'.
C1_Witness ==
  \E e \in DOMAIN execs :
    /\ execs[e].kind = "process"
    /\ execs[e].errorFired
    /\ execs[e].stage = "closed"
    /\ execs[e].sub = "notified"
    /\ \E k \in 1..Len(execs[e].channel) : execs[e].channel[k].type = "stdout"

\* C2: every execution dispatched through the session path (executeSdk) has
\* exactly one terminal event, as the last event, once its channel has
\* completed, and none before; cancelled executions included.
C2_SessionOneTerminal ==
  \A e \in DOMAIN execs :
    LET x == execs[e]
        ch == x.channel
    IN x.kind = "cancel" =>
         /\ Cardinality(Terminals(ch)) = IF x.subj = "open" THEN 0 ELSE 1
         /\ Terminals(ch) \subseteq {Len(ch)}

\* C3: a run that passed the single-flight guard and waits for a task can
\* still be told of the end of that task's stream: the orchestrator never
\* waits on a stream it has unsubscribed from (such a wait never ends, and
\* isRunning stays true).
C3_RunAlwaysEnds ==
  (isRunning /\ pc = "task") => execs[currentTaskSubscription].sub = "active"

\* C4: a step that is a rejected executePhase call changes nothing of the
\* program: no sync, no fetch, no push, no dispatch, and isRunning,
\* shouldStop, currentProcessId and the results are as before.
C4_RejectedCallHasNoEffect ==
  [][rejected' # rejected => UNCHANGED progVars]_vars

\* C4 witness: a call was rejected while a task of the run was executing.
C4_Witness ==
  /\ rejected >= 1
  /\ isRunning
  /\ pc = "task"
  /\ Len(pushes) >= 1

\* C5: at most one execution is in flight; every execution but the last one
\* dispatched has delivered the end of its stream to the orchestrator.
C5_AtMostOneInFlight ==
  /\ Cardinality({e \in DOMAIN execs : execs[e].sub \in {"active", "unsubscribed"}}) <= 1
  /\ \A e \in DOMAIN execs :
       e < Len(execs) => (execs[e].sub = "notified" /\ execs[e].subj # "open")

\* C5 witness: the second task of a run is executing.
C5_Witness ==
  /\ isRunning
  /\ Len(execs) = 2
  /\ execs[1].idx = 1
  /\ execs[2].idx = 2
  /\ execs[2].sub = "active"

\* C6 as stated: after a graceful stop requested while task k was executing
\* the PhaseResult holds N results, the first k executed, the other N-k
\* skipped, and stoppedByUser is true.
C6_GracefulStop ==
  (outcome = "returned" /\ stopAt >= 1) =>
    LET rs == lastResult.results
        N == Len(pendingTasks)
    IN /\ lastResult.stoppedByUser
       /\ Len(rs) = N
       /\ \A j \in 1..N :
            IF j <= stopAt THEN IsExecutedStatus(rs[j].status)
            ELSE rs[j].status = "skipped"

\* C6 amended: as C6 when task k does not end blocked; when task k ends
\* blocked the PhaseResult holds the k executed results only, none skipped,
\* and stoppedByUser is true.
C6_GracefulStopAmended ==
  (outcome = "returned" /\ stopAt >= 1) =>
    LET rs == lastResult.results
        N == Len(pendingTasks)
        k == stopAt
    IN /\ lastResult.stoppedByUser
       /\ Len(rs) >= k
       /\ \A j \in 1..k : IsExecutedStatus(rs[j].status)
       /\ \A j \in 1..(k - 1) : rs[j].status # "blocked"
       /\ IF rs[k].status = "blocked"
          THEN Len(rs) = k /\ lastResult.tasksSkipped = 0
          ELSE /\ Len(rs) = N
               /\ \A j \in (k + 1)..N : rs[j].status = "skipped"
               /\ lastResult.tasksSkipped = N - k

\* C6 witness: three pending tasks, the stop requested during the first,
\* which ran to its end; the other two are skipped.
C6_Witness ==
  /\ outcome = "returned"
  /\ stopAt = 1
  /\ Len(pendingTasks) = 3
  /\ lastResult.tasksSkipped = 2
  /\ lastResult.stoppedByUser

\* C7: when the stream of the executing task ends and a chunk delivered
\* before matched a blocker pattern, the task is recorded as blocked, it is
\* the last result and the phase returns without dispatching another task.
C7_BlockerPrecedence ==
  [][(/\ isRunning
      /\ pc = "task"
      /\ execs[currentTaskSubscription].sub = "active"
      /\ execs'[currentTaskSubscription].sub = "notified"
      /\ HasBlocker(Delivered(execs[currentTaskSubscription])))
     => /\ Len(results') = idx
        /\ results'[idx].status = "blocked"
        /\ Len(execs') = Len(execs)
        /\ outcome' = "returned"]_vars

\* C8: a blocked result is the last entry of the PhaseResult, nothing is
\* recorded for the tasks after it and nothing is counted as skipped; with
\* three pending tasks, the first completed and the second blocked, the
\* counts are 1 completed, 1 blocked, 0 skipped and there are two entries.
C8_BlockedOmitsRest ==
  outcome = "returned" =>
    LET rs == lastResult.results IN
    /\ \A j \in 1..Len(rs) :
         rs[j].status = "blocked" =>
           /\ Len(rs) = j
           /\ lastResult.tasksSkipped = 0
           /\ \A m \in (j + 1)..Len(pendingTasks) :
                \A q \in 1..Len(rs) : rs[q].taskId # pendingTasks[m]
    /\ (/\ Len(pendingTasks) = 3
        /\ Len(rs) >= 2
        /\ rs[1].status = "completed"
        /\ rs[2].status = "blocked")
       => /\ lastResult.tasksCompleted = 1
          /\ lastResult.tasksBlocked = 1
          /\ lastResult.tasksSkipped = 0
          /\ Len(rs) = 2

\* C8 witness: pending tasks A, B, C; A completed, B blocked, phase returned.
C8_Witness ==
  /\ outcome = "returned"
  /\ Len(pendingTasks) = 3
  /\ Len(lastResult.results) = 2
  /\ lastResult.results[1].status = "completed"
  /\ lastResult.results[2].status = "blocked"

\* C9: when the stream of the executing task ends with a stream error and no
\* delivered chunk matched a blocker pattern, the task is recorded as failed
\* without blockerReason, and the phase goes on: the next pending task is
\* dispatched, or, if a stop was requested, the remaining tasks are skipped,
\* or, after the last task, the phase returns.  A stream that has already
\* failed when the orchestrator subscribes is recorded as failed too.
C9_FailedContinues ==
  [][/\ (/\ isRunning
         /\ pc = "task"
         /\ execs[currentTaskSubscription].sub = "active"
         /\ execs'[currentTaskSubscription].sub = "notified"
         /\ execs'[currentTaskSubscription].subj = "errored"
         /\ ~HasBlocker(Delivered(execs[currentTaskSubscription])))
        => /\ results'[idx] =
                TaskResultOf(pendingTasks[idx], "failed", NoReason,
                             results'[idx].duration)
           /\ IF idx < Len(pendingTasks) /\ ~shouldStop
              THEN /\ isRunning'
                   /\ Len(execs') = Len(execs) + 1
                   /\ execs'[Len(execs')].task = pendingTasks[idx + 1]
                   /\ Len(results') = idx
              ELSE /\ outcome' = "returned"
                   /\ Len(results') = Len(pendingTasks)
                   /\ Len(execs') = Len(execs)
                   /\ \A j \in (idx + 1)..Len(pendingTasks) :
                        results'[j].status = "skipped"
     /\ \A e \in (DOMAIN execs') \ (DOMAIN execs) :
          (execs'[e].sub = "notified" /\ execs'[e].subj = "errored")
            => results'[execs'[e].idx] =
                 TaskResultOf(execs'[e].task, "failed", NoReason, 0)]_vars

\* C9 witness: the first task's stream ended with a stream error, the task
\* is recorded as failed and the second task is executing.
C9_Witness ==
  /\ isRunning
  /\ pc = "task"
  /\ Len(execs) = 2
  /\ execs[1].kind = "process"
  /\ execs[1].subj = "errored"
  /\ ~HasBlocker(Delivered(execs[1]))
  /\ Len(results) = 1
  /\ results[1].status = "failed"
  /\ execs[2].idx = 2
  /\ execs[2].sub = "active"

\* C10: when the orchestrator is told of the end of a stream on which the
\* adapter reported an execution error as an error event, the task is
\* recorded as failed; one-shot path and session path.
C10_ErrorEventMeansFailed ==
  [][\A e \in DOMAIN execs' :
       (/\ (e \notin DOMAIN execs \/ execs[e].sub = "active")
        /\ execs'[e].sub = "notified"
        /\ \E k \in 1..Len(execs'[e].channel) : execs'[e].channel[k].type = "error")
       => results'[execs'[e].idx].status = "failed"]_vars

IsTerminalStatus(st) == st \in {"completed", "failed", "stopped"}

\* C11: when the stream of the executing task ends, the first status pushed
\* in that turn is the terminal status of that task, blocked if a delivered
\* chunk matched a blocker pattern, else failed if the stream errored, else
\* completed, and no other terminal status is pushed for the task.
C11_OneTerminalPush ==
  [][(/\ isRunning
      /\ pc = "task"
      /\ execs[currentTaskSubscription].sub = "active"
      /\ execs'[currentTaskSubscription].sub = "notified")
     => LET e == currentTaskSubscription
            task == pendingTasks[idx]
            expected == IF HasBlocker(Delivered(execs[e])) THEN "blocked"
                        ELSE IF execs'[e].subj = "errored" THEN "failed"
                        ELSE "completed"
        IN /\ Len(pushes') > Len(pushes)
           /\ pushes'[Len(pushes) + 1] = <<task, expected>>
           /\ \A k \in (Len(pushes) + 2)..Len(pushes') : pushes'[k][1] # task]_vars

\* C12: a step never changes a terminal registry status (completed, failed,
\* stopped) of an execution, except to stopped.
C12_StatusMonotonic ==
  [][\A e \in DOMAIN execs :
       (IsTerminalStatus(execs[e].status) /\ execs'[e].status # execs[e].status)
         => execs'[e].status = "stopped"]_vars

\* C19: the registry's heartbeat is the first event of the channel of every
\* tracked execution, and the consumer of the stream receives the channel
\* from its first event.
C19_HeartbeatFirst ==
  \A e \in DOMAIN execs :
    execs[e].kind \in {"process", "cancel"} =>
      /\ Len(execs[e].channel) >= 1
      /\ execs[e].channel[1] = StatusStarted
      /\ (execs[e].sub # "none" => execs[e].subFrom = 0)

\* C20: in the results of the run and in every PhaseResult returned, an
\* entry has a blockerReason exactly when its status is blocked.
C20_BlockerReasonIffBlocked ==
  /\ \A j \in 1..Len(results) :
       (results[j].blockerReason # NoReason) <=> (results[j].status = "blocked")
  /\ \A j \in 1..Len(lastResult.results) :
       (lastResult.results[j].blockerReason # NoReason)
         <=> (lastResult.results[j].status = "blocked")

\* C20 witness: a PhaseResult with a failed entry whose stream had delivered
\* a blocker line, followed by a blocked entry.
C20_Witness ==
  /\ outcome = "returned"
  /\ Len(lastResult.results) = 2
  /\ lastResult.results[1].status = "failed"
  /\ HasBlocker(Delivered(execs[1]))
  /\ lastResult.results[2].status = "blocked"
  /\ lastResult.results[2].blockerReason = <<"BLOCKED:", "missing", "API", "key">>

\* The meta values the callers of setExecutionMeta pass, and one with only a
\* processId.
MetaValues == {<<NoProcessId, "completed">>, <<NoProcessId, "failed">>,
               <<TestProcessId("github-copilot", 1, 0), "running">>,
               <<TestProcessId("github-copilot", 1, 0), NULL>>}

\* The record of taskId in `new` is the record of `logs` with the fields of
\* meta that are present replaced, and nothing else of the store differs.
MetaOnlyChanges(logs, new, taskId, meta) ==
  /\ DOMAIN new = (DOMAIN logs) \cup {taskId}
  /\ \A k \in DOMAIN logs : k # taskId => new[k] = logs[k]
  /\ new[taskId].processId =
       (IF meta[1] # NoProcessId THEN meta[1] ELSE PrevProcessId(logs, taskId))
  /\ new[taskId].status =
       (IF meta[2] # NULL THEN meta[2] ELSE PrevStatus(logs, taskId))
  /\ HasLog(logs, taskId) =>
       /\ new[taskId].outputs = logs[taskId].outputs
       /\ new[taskId].lastExecutedAt = logs[taskId].lastExecutedAt

\* The record of taskId in `new` has the processId and status it had in `logs`.
KeepsMeta(logs, new, taskId) ==
  /\ new[taskId].processId = PrevProcessId(logs, taskId)
  /\ new[taskId].status = PrevStatus(logs, taskId)

\* C32: setExecutionMeta changes only the fields present in meta: an absent
\* processId or status keeps its previous value, outputs and lastExecutedAt of
\* an existing record are unchanged, and so are the records of the other task
\* ids; appendExecutionOutput and setExecutionLogs keep processId and status.
C32_MetaChangesOnlyMeta ==
  \A taskId \in LogTaskIds :
    /\ \A meta \in MetaValues :
         MetaOnlyChanges(executionLogs,
                         setExecutionMeta(executionLogs, taskId, meta[1], meta[2], now),
                         taskId, meta)
    /\ KeepsMeta(executionLogs,
                 appendExecutionOutput(executionLogs, taskId, EvComplete, now), taskId)
    /\ \A outputs \in LogOutputs :
         KeepsMeta(executionLogs,
                   setExecutionLogs(executionLogs, taskId, outputs, now), taskId)

\* The store holds a record of task 1 with a status, a processId, outputs and
\* a stamp older than the clock, and a record of task 2.
C32_Witness ==
  /\ HasLog(executionLogs, 1) /\ HasLog(executionLogs, 2)
  /\ executionLogs[1].status = "running"
  /\ executionLogs[1].processId # NoProcessId
  /\ executionLogs[1].outputs # <<>>
  /\ executionLogs[1].lastExecutedAt < DateNow(now)

\* ------------------------------------------------------------- the log store on its own
\* Output lists of logs:set around the cap, numbered entries, and the meta
\* values of setExecutionMeta.
CapSizes == {0, 1, LogCap - 1, LogCap, LogCap + 1}
SetEntry(k) == Ev("stdout", << <<k>> >>)
SetEntries(n) == [k \in 1..n |-> SetEntry(k)]
AppendedEntry(k) == Ev("stderr", << <<k>> >>)
CapMetas == {<<NoProcessId, "completed">>, <<NoProcessId, "failed">>,
             <<TestProcessId("github-copilot", 1, 0), "running">>}

CapSetLogs ==
  /\ \E n \in CapSizes :
       Apply([State EXCEPT !.executionLogs = setExecutionLogs(@, 1, SetEntries(n), now)])
  /\ envUnchanged

CapSetMeta ==
  /\ \E meta \in CapMetas :
       Apply([State EXCEPT !.executionLogs =
                             setExecutionMeta(@, 1, meta[1], meta[2], now)])
  /\ envUnchanged

\* The next callback of a subscription appends the event it received.
CapAppend ==
  /\ nchunks < MaxChunks
  /\ Apply([State EXCEPT !.executionLogs =
                           appendExecutionOutput(@, 1, AppendedEntry(nchunks + 1), now)])
  /\ nchunks' = nchunks + 1
  /\ UNCHANGED <<now, rejected, runs>>

CapClear ==
  /\ Apply([State EXCEPT !.executionLogs = clearExecutionLogs(@, 1)])
  /\ envUnchanged

NextCap ==
  \/ CapSetLogs
  \/ CapSetMeta
  \/ CapAppend
  \/ CapClear

CapSpec == Init /\ [][NextCap]_vars

\* The step ends a run of executePhase that had passed the guard.
RunEnds == outcome = "running" /\ outcome' \in {"returned", "threw"}

\* C22: every run of executePhase that passed the guard has called
\* onPhaseComplete exactly once when it ends, whether it ends normally, by a
\* blocker or by an error.
C22_PhaseCompleteOnce ==
  [][RunEnds => phaseCompletes' = 1]_vars

\* C23: when a run of executePhase that passed the guard ends, by return or
\* by exception, isRunning and shouldStop are false and currentProcessId and
\* currentTaskSubscription are null.
C23_ResetOnEnd ==
  [][RunEnds => /\ isRunning' = FALSE
                /\ shouldStop' = FALSE
                /\ currentProcessId' = NoProcessId
                /\ currentTaskSubscription' = NoSubscription]_vars

\* C23 witness: a run in which a stop was requested while task 1 was
\* executing has returned, and the state is reset.
C23_Witness ==
  /\ outcome = "returned" /\ stopAt = 1 /\ lastResult.stoppedByUser
  /\ Len(execs) >= 1
  /\ ~isRunning /\ ~shouldStop
  /\ currentProcessId = NoProcessId /\ currentTaskSubscription = NoSubscription

\* C28: registering an execution leaves every tracked entry with the
\* execution it was registered for: no attempt is registered under a
\* processId that another attempt holds.
C28_ProcessIdFresh ==
  [][\A p \in DOMAIN runningProcesses :
       /\ p \in DOMAIN runningProcesses'
       /\ runningProcesses'[p] = runningProcesses[p]]_vars

\* C29: a cancel of a session execution aborts the session of that
\* execution (the active session is its own when abort() is called), and a
\* cancelled execution does not go on to sendAndWait: after the cancel no
\* model round-trip starts for it.
C29_CancelAbortsOwnSession ==
  [][\A e \in 1..Len(execs) :
       e <= Len(execs') =>
         /\ (execs[e].stopping = "no" /\ execs'[e].stopping = "abort")
              => activeSession = e
         /\ (execs[e].cancelled /\ execs[e].stage # "sending")
              => execs'[e].stage # "sending"]_vars

\* ------------------------------------------------------------- properties of LogSpec
\* C13: stopExecution on a tracked processId does not raise and leaves the
\* status of the tracked execution stopped when it returns, whatever the
\* status was before: at once when a child process is tracked, after the
\* awaited cancel callback when a cancel callback is tracked. On a processId
\* that is not tracked it raises and changes nothing.
C13_StopLeavesStopped ==
  /\ \A pid \in DOMAIN runningProcesses :
       /\ ~stopExecution(State, pid).threw
       /\ execs[runningProcesses[pid]].kind = "process"
            => stopExecution(State, pid).s.execs[runningProcesses[pid]].status
                 = "stopped"
       /\ execs[runningProcesses[pid]].kind = "cancel"
            => stopExecutionResume(stopExecution(State, pid).s,
                                   runningProcesses[pid], TRUE)
                 .execs[runningProcesses[pid]].status = "stopped"
  /\ \A e \in DOMAIN execs :
       execs[e].stopping # "no"
         => stopExecutionResume(State, e, TRUE).execs[e].status = "stopped"
  /\ stopExecution(State, UntrackedPid) = [threw |-> TRUE, s |-> State]

\* C13 witness: agents:stop has returned for a child process that had
\* already closed, and the status it had from the exit code is now stopped.
C13_Witness ==
  \E e \in DOMAIN execs :
    /\ execs[e].kind = "process" /\ execs[e].stage = "closed"
    /\ Terminals(execs[e].channel) # {}
    /\ execs[e].status = "stopped"
    /\ reply = [op |-> "stop", processId |-> execs[e].pid, threw |-> FALSE]

\* C14: stopExecution on a tracked processId whose status is already
\* completed, failed or stopped does not raise and leaves the status as it
\* was (for a cancel callback: when the awaited callback has returned).
C14_TerminalStopUnchanged ==
  \A pid \in DOMAIN runningProcesses :
    (/\ IsTerminalStatus(execs[runningProcesses[pid]].status)
     /\ execs[runningProcesses[pid]].stopping = "no")
      => /\ ~stopExecution(State, pid).threw
         /\ execs[runningProcesses[pid]].kind = "process"
              => stopExecution(State, pid).s.execs[runningProcesses[pid]].status
                   = execs[runningProcesses[pid]].status
         /\ execs[runningProcesses[pid]].kind = "cancel"
              => stopExecutionResume(stopExecution(State, pid).s,
                                     runningProcesses[pid], TRUE)
                   .execs[runningProcesses[pid]].status
                   = execs[runningProcesses[pid]].status

\* The step is the return of an agents:stop call for execution e.
StopReturned(e) ==
  /\ reply' # reply
  /\ reply'.op = "stop"
  /\ reply'.processId = execs[e].pid
  /\ execs[e].pid \in DOMAIN runningProcesses
  /\ runningProcesses[execs[e].pid] = e

\* C15: a stopExecution call on a tracked processId that an earlier call has
\* left stopped does not raise and leaves the status stopped, for one-shot
\* and for session executions.
C15_StopTwice ==
  [][\A e \in DOMAIN execs :
       (execs[e].status = "stopped" /\ StopReturned(e))
         => (~reply'.threw /\ execs'[e].status = "stopped")]_vars

\* C16: once the stream of an execution of a task has ended and the record of
\* the task still names that execution, the status the log store holds is
\* the terminal status of the execution in the registry.
C16_LogReportsTerminal ==
  \A e \in DOMAIN execs :
    (/\ execs[e].task # 0
     /\ execs[e].sub = "notified"
     /\ execs[e].pid \in DOMAIN runningProcesses
     /\ runningProcesses[execs[e].pid] = e
     /\ HasLog(executionLogs, execs[e].task)
     /\ executionLogs[execs[e].task].processId = execs[e].pid)
      => /\ IsTerminalStatus(execs[e].status)
         /\ executionLogs[execs[e].task].status = execs[e].status

\* The status the resolution is to return for a task: the live status when
\* the processId of the record is tracked, else the persisted status, else
\* null.
ResolvedStatus(taskId) ==
  IF /\ taskId \in DOMAIN executionLogs
     /\ executionLogs[taskId].processId \in DOMAIN runningProcesses
  THEN execs[runningProcesses[executionLogs[taskId].processId]].status
  ELSE IF taskId \in DOMAIN executionLogs
  THEN executionLogs[taskId].status
  ELSE NULL

\* C17: status resolution for a task returns the live status of the registry
\* when the processId of the record is tracked in memory, otherwise the last
\* persisted status, and null when there is neither; with an empty registry
\* (after a restart) it returns the persisted status.
C17_StatusResolution ==
  \A taskId \in LogTaskIds :
    /\ getStatus(State, taskId).status = ResolvedStatus(taskId)
    /\ runningProcesses = <<>>
         => getStatus(State, taskId).status = PrevStatus(executionLogs, taskId)

\* C17 witness: after a restart, with nothing tracked, logs:getStatus has
\* answered running, the status the record of the lost execution holds.
C17_Witness ==
  /\ runningProcesses = <<>> /\ testCall = NoCall /\ runs = 1
  /\ HasLog(executionLogs, 1)
  /\ executionLogs[1].processId # NoProcessId
  /\ executionLogs[1].status = "running"
  /\ reply = [op |-> "getStatus", taskId |-> 1,
              result |-> [processId |-> executionLogs[1].processId,
                          status |-> "running"]]

\* ------------------------------------------------------------- properties of CapSpec
\* The last n entries of a list.
LastEntries(outputs, n) ==
  IF Len(outputs) > n THEN SubSeq(outputs, Len(outputs) - n + 1, Len(outputs))
  ELSE outputs

\* An append keeps the most recent LogCap entries of the old list followed by
\* the new entry, in emission order.
AppendKeepsRecent ==
  nchunks' = nchunks + 1
    => /\ 1 \in DOMAIN executionLogs'
       /\ executionLogs'[1].outputs =
            LastEntries(Append(PrevOutputs(executionLogs, 1),
                               AppendedEntry(nchunks')), LogCap)

\* C18: after any sequence of setExecutionLogs, setExecutionMeta,
\* appendExecutionOutput and clearExecutionLogs the output list of every
\* record holds at most 2000 entries, and an append beyond the cap drops the
\* oldest entries and keeps the most recent ones in emission order.
C18_LogCapped ==
  [][/\ \A taskId \in DOMAIN executionLogs' :
          Len(executionLogs'[taskId].outputs) <= LogCap
     /\ AppendKeepsRecent]_vars

\* ------------------------------------------------------------- properties of PushSpec
\* The state of the orchestrator, of the registry and of the adapter, without
\* the history of failed pushes.
runVars == <<isRunning, shouldStop, currentTaskSubscription, currentProcessId,
             pc, options, pendingTasks, idx, results, blockerDetected,
             blockerReason, lastResult, outcome, pushes, stopAt,
             runningProcesses, execs, client, activeSession, phaseCompletes>>

\* C21: the rejection of an updateTaskStatus push (in_progress, completed or
\* blocked) changes nothing of the run: no TaskResult, no stop request, no
\* exception out of executePhase; the run goes on from the same state as when
\* the push succeeds, so it produces the same PhaseResult.
C21_PushFailureHarmless ==
  [][failedPushes' # failedPushes => UNCHANGED runVars]_vars

\* C21 witness: the completed push of a task has been rejected and the run
\* is executing a later task.
C21_Witness ==
  /\ isRunning /\ pc = "task" /\ idx >= 2
  /\ \E k \in failedPushes : pushes[k] = <<pendingTasks[1], "completed">>
  /\ results[1].status = "completed"

\* ------------------------------------------------------------- properties of ToolSpec
\* C24: every tool handler, when the underlying operation fails (missing
\* file, command timeout or nonzero exit, invalid pattern, network
\* failure), returns a result with success = false and an error message and
\* does not throw; no call of a handler throws.
C24_ToolFailureReturned ==
  toolCall.tool # "none" =>
    /\ ~toolCall.threw
    /\ toolCall.failed =>
         /\ toolCall.result.success = FALSE
         /\ "error" \in DOMAIN toolCall.result

\* A read of a file that does not exist has failed.
C24_Witness ==
  /\ toolCall.tool = "read_file"
  /\ toolCall.arg = Str_src_new_c_ts
  /\ toolCall.failed
  /\ File_a_ts \in fsys.files

FsTools ==
  {"edit_file", "read_file", "delete_file", "list_files", "apply_patch",
   "search_code", "run_command"}

\* C25: a filesystem tool called with a path that resolves outside the
\* project root returns success = false and hands no path to the file
\* system or the shell.
C25_EscapeRejected ==
  (/\ toolCall.tool \in FsTools
   /\ ~IsPrefix(ProjectRoot, path_join(ProjectPath, toolCall.arg)))
    => /\ toolCall.result.success = FALSE
       /\ toolCall.io = {}

\* The text run_command hands to truncateText for its stdout.
StdoutGiven ==
  stripAnsi(IF toolCall.input.ok THEN Trim(toolCall.input.stdout)
            ELSE toolCall.input.stdout)

\* out is in when in has at most maxChars characters; otherwise out is the
\* first floor(maxChars/2) characters of in, the marker, and the last
\* floor(maxChars/2) characters of in.
HalvesKept(in, out, maxChars) ==
  IF Len(in) <= maxChars THEN out = in
  ELSE /\ Len(out) =
            2 * (maxChars \div 2)
              + Len(TruncationMarker(Len(in) - 2 * (maxChars \div 2)))
       /\ Len(out) <= maxChars + Len(TruncationMarker(Len(in) - 2 * (maxChars \div 2)))
       /\ SubSeq(out, 1, maxChars \div 2) = SubSeq(in, 1, maxChars \div 2)
       /\ SubSeq(out, maxChars \div 2 + 1, Len(out) - maxChars \div 2)
            = TruncationMarker(Len(in) - 2 * (maxChars \div 2))
       /\ SubSeq(out, Len(out) - maxChars \div 2 + 1, Len(out))
            = SubSeq(in, Len(in) - maxChars \div 2 + 1, Len(in))

\* C26: the stdout and the error text a run_command result carries are the
\* text given when it has at most maxChars characters (20,000 for stdout,
\* 8,000 for the error text), and otherwise its first floor(maxChars/2)
\* characters, the truncation marker and its last floor(maxChars/2)
\* characters, which is at most maxChars plus the marker length.
C26_TruncateKeepsHalves ==
  toolCall.tool = "run_command" =>
    /\ HalvesKept(StdoutGiven, toolCall.result.stdout, DefaultMaxChars)
    /\ toolCall.failed =>
         HalvesKept(stripAnsi(toolCall.input.message), toolCall.result.error,
                    ErrorMaxChars)

\* A command has printed 50,000 characters and its result has been cut.
C26_Witness ==
  /\ toolCall.tool = "run_command"
  /\ Len(StdoutGiven) = 50000
  /\ Len(toolCall.result.stdout) < 50000
  /\ SubSeq(toolCall.result.stdout, 1, 10000) = SubSeq(StdoutGiven, 1, 10000)

\* C27: find_files with the pattern src/**/*.ts returns src/a/b.ts and
\* src/a.ts when they exist, and not src/a/b.tsx.
C27_GlobMatches ==
  (/\ toolCall.tool = "find_files"
   /\ toolCall.input = Glob_src_deep_ts
   /\ ~toolCall.failed)
    => toolCall.result.files =
         {RelativePath(ProjectRoot, f) : f \in fsys.files \cap {File_a_ts, File_a_b_ts}}

\* ------------------------------------------------------------- properties of ToolEventSpec
IsToolEvent(ev) == ev.type \in {"tool_start", "tool_end", "tool_error"}

\* The tool events of call c on the channel of its execution.
ToolEventsOf(c) ==
  LET OfCall(ev) == IsToolEvent(ev) /\ ev.data[1][1] = ToolNames[c]
  IN SelectSeq(execs[toolCalls[c].exec].channel, OfCall)

\* C33: every tool call of a session puts exactly one pair on the channel of
\* its execution: a tool_start, then one tool_end or tool_error; no tool_end
\* or tool_error comes without the tool_start before it, and when the stream
\* has ended the pair of every call is there.
C33_ToolEventPairs ==
  \A c \in DOMAIN toolCalls :
    /\ Len(ToolEventsOf(c)) <= 2
    /\ Len(ToolEventsOf(c)) >= 1 => ToolEventsOf(c)[1].type = "tool_start"
    /\ Len(ToolEventsOf(c)) = 2 => ToolEventsOf(c)[2].type # "tool_start"
    /\ execs[toolCalls[c].exec].stage = "finished" => Len(ToolEventsOf(c)) = 2

\* ------------------------------------------------------------- properties of RunSpec
\* C31: a task whose result is recorded as skipped has duration 0, and the
\* step that records it calls no callback for the task, issues no push for
\* it and dispatches no execution for it.
C31_SkippedNotExecuted ==
  [][\A j \in (Len(results) + 1)..Len(results') :
       results'[j].status = "skipped" =>
         /\ results'[j].duration = 0
         /\ results'[j].taskId = pendingTasks'[j]
         /\ shouldStop
         /\ \A k \in (Len(callbacks) + 1)..Len(callbacks') :
              callbacks'[k][2] # results'[j].taskId
         /\ \A k \in (Len(pushes) + 1)..Len(pushes') :
              pushes'[k][1] # results'[j].taskId
         /\ \A e \in (Len(execs) + 1)..Len(execs') :
              execs'[e].task # results'[j].taskId]_vars

\* The first task took a millisecond and completed, the second was skipped.
C31_Witness ==
  /\ Len(results) >= 2
  /\ results[1].status = "completed" /\ results[1].duration = 1
  /\ results[2].status = "skipped"
  /\ \A k \in 1..Len(callbacks) : callbacks[k][2] # results[2].taskId

\* The step in which the task list arrives after stopAfterCurrentTask() was
\* called during context sync or task fetch, and the run returns.
StopBeforeFirstTask == pc = "fetch" /\ stopAt = 0 /\ outcome' = "returned"

\* The PhaseResult holds one skipped entry per pending task, in order.
AllSkipped(pr, tasks) ==
  /\ Len(pr.results) = Len(tasks)
  /\ \A j \in 1..Len(tasks) :
       pr.results[j].taskId = tasks[j] /\ pr.results[j].status = "skipped"
  /\ pr.tasksSkipped = Len(tasks)
  /\ pr.tasksCompleted = 0 /\ pr.tasksFailed = 0 /\ pr.tasksBlocked = 0

\* The step dispatches nothing, pushes no status and calls no task callback.
NothingExecuted ==
  /\ execs' = execs
  /\ runningProcesses' = runningProcesses
  /\ pushes' = pushes
  /\ callbacks' = callbacks

\* A run starts with shouldStop cleared, whatever was requested while idle.
IdleStopNoEffect == (~isRunning /\ isRunning') => (~shouldStop' /\ stopAt' = -1)

\* C34 as stated: a stopAfterCurrentTask() during context sync or task fetch
\* makes all N pending tasks skipped, nothing is executed and stoppedByUser is
\* true; a request made while idle has no effect on the next run.
C34_StopBeforeFirstTask ==
  [][/\ StopBeforeFirstTask =>
          /\ lastResult'.stoppedByUser
          /\ AllSkipped(lastResult', pendingTasks')
          /\ NothingExecuted
     /\ IdleStopNoEffect]_vars

\* C34 amended: as C34 when there is at least one pending task; with no
\* pending task the run returns the empty result, stoppedByUser false.
C34_StopBeforeFirstTaskAmended ==
  [][/\ StopBeforeFirstTask =>
          /\ lastResult'.stoppedByUser = (Len(pendingTasks') >= 1)
          /\ AllSkipped(lastResult', pendingTasks')
          /\ NothingExecuted
     /\ IdleStopNoEffect]_vars

\* Three pending tasks, the stop requested before the list arrived: three
\* skipped results, stoppedByUser true, no execution.
C34_Witness ==
  /\ outcome = "returned"
  /\ stopAt = 0
  /\ Len(pendingTasks) = 3
  /\ lastResult.tasksSkipped = 3
  /\ lastResult.stoppedByUser
  /\ execs = <<>>

\* The shape of a list of results over the pending tasks `tasks`.
ResultsShape(rs, tasks) ==
  /\ Len(rs) <= Len(tasks)
  /\ \A j \in 1..Len(rs) : rs[j].taskId = tasks[j]
  /\ \A j, k \in 1..Len(rs) : rs[j].taskId = rs[k].taskId => j = k
  /\ \A j \in 1..Len(rs) : rs[j].status = "blocked" => j = Len(rs)
  /\ \A j, k \in 1..Len(rs) :
       (j < k /\ rs[j].status = "skipped") => rs[k].status = "skipped"

\* C35: the results of a PhaseResult follow the source order of the pending
\* tasks, hold each task at most once, the four counts sum to the number of
\* entries, which is at most N, at most one entry is blocked and it is the
\* last, and no executed entry comes after a skipped entry.
C35_ResultsShape ==
  /\ ResultsShape(results, pendingTasks)
  /\ outcome = "returned" =>
       /\ ResultsShape(lastResult.results, pendingTasks)
       /\ lastResult.tasksCompleted + lastResult.tasksFailed
          + lastResult.tasksBlocked + lastResult.tasksSkipped
          = Len(lastResult.results)

\* A run of three tasks returned: one completed, one failed after the stop
\* was requested, one skipped.
C35_Witness ==
  /\ outcome = "returned"
  /\ Len(lastResult.results) = 3
  /\ lastResult.results[1].status = "completed"
  /\ lastResult.results[2].status = "failed"
  /\ lastResult.results[3].status = "skipped"

\* The step in which the stream of the executing task notifies the
\* orchestrator's observer of its end (error or complete).
TaskStreamEnds ==
  /\ isRunning
  /\ pc = "task"
  /\ currentTaskSubscription # NoSubscription
  /\ execs[currentTaskSubscription].sub = "active"
  /\ execs'[currentTaskSubscription].sub = "notified"

\* The status the registry holds for the processId of execution e.
RegistryStatus(xs, rp, e) == xs[rp[xs[e].pid]].status

\* C36: when the TaskResult of a phase task is completed the registry status
\* of the task's processId is completed, and when it is failed the registry
\* status is failed.
C36_ResultMatchesRegistry ==
  [][TaskStreamEnds =>
       (results'[idx].status \in {"completed", "failed"} =>
          RegistryStatus(execs', runningProcesses', currentTaskSubscription)
            = results'[idx].status)]_vars

\* C37: when the stream of the executing task ends with a stream error after
\* a chunk that matched a blocker pattern was delivered, the task is recorded
\* as failed without blockerReason and the phase goes on as after any failed
\* task; a task is recorded as blocked only when its stream completed without
\* a stream error.
C37_ErrorOverridesBlocker ==
  [][TaskStreamEnds =>
       /\ (/\ execs'[currentTaskSubscription].subj = "errored"
           /\ HasBlocker(Delivered(execs[currentTaskSubscription])))
          => /\ results'[idx] =
                  TaskResultOf(pendingTasks[idx], "failed", NoReason,
                               results'[idx].duration)
             /\ IF idx < Len(pendingTasks) /\ ~shouldStop
                THEN /\ isRunning'
                     /\ Len(execs') = Len(execs) + 1
                     /\ execs'[Len(execs')].task = pendingTasks[idx + 1]
                     /\ Len(results') = idx
                ELSE /\ outcome' = "returned"
                     /\ lastResult'.tasksBlocked = 0
                     /\ Len(results') = Len(pendingTasks)
       /\ results'[idx].status = "blocked"
          => /\ execs'[currentTaskSubscription].subj = "completed"
             /\ HasBlocker(Delivered(execs'[currentTaskSubscription]))]_vars

\* The stream of the first task delivered a blocker line and then failed: the
\* task is recorded as failed and the second task is executing.
C37_Witness ==
  /\ isRunning
  /\ pc = "task"
  /\ Len(execs) = 2
  /\ execs[1].subj = "errored"
  /\ HasBlocker(Delivered(execs[1]))
  /\ results = <<TaskResultOf(pendingTasks[1], "failed", NoReason, results[1].duration)>>
  /\ execs[2].idx = 2
  /\ execs[2].sub = "active"

\* ------------------------------------------------------------- properties of StoreSpec
\* The pushes of a task, in the order of issue, and those applied, in the
\* order of application.
PushesOf(task) ==
  LET OfTask(p) == p[1] = task IN SelectSeq(pushes, OfTask)
AppliedOf(task) ==
  LET OfTask(k) == pushes[k][1] = task IN SelectSeq(applied, OfTask)

\* C38: the pushes of an executed task are in_progress first, issued with the
\* dispatch, then at most one terminal status; and once the backend has
\* applied all the pushes of a task whose terminal status was pushed, the
\* update it applied last is the terminal one.
C38_StoreEndsTerminal ==
  \A task \in 1..MaxTasks :
    /\ Len(PushesOf(task)) <= 2
    /\ Len(PushesOf(task)) >= 1 => PushesOf(task)[1][2] = "in_progress"
    /\ Len(PushesOf(task)) = 2 => PushesOf(task)[2][2] \in {"completed", "blocked"}
    /\ (\E e \in DOMAIN execs : execs[e].task = task) => Len(PushesOf(task)) >= 1
    /\ (Len(PushesOf(task)) = 2 /\ Len(AppliedOf(task)) = 2)
         => pushes[AppliedOf(task)[2]][2] = PushesOf(task)[2][2]

\* C39: once forceStop() has unsubscribed from the stream of the task in
\* flight, no step calls onTaskOutput or onTaskComplete for that task, adds a
\* TaskResult for it or pushes a status for it, whatever the cancelled
\* execution emits.
C39_NothingAfterForceStop ==
  [][\A e \in DOMAIN execs :
       (execs'[e].sub = "unsubscribed" /\ execs'[e].observer = "phase") =>
         /\ \A k \in (Len(callbacks) + 1)..Len(callbacks') :
              callbacks'[k][2] # execs[e].task
         /\ \A j \in (Len(results) + 1)..Len(results') :
              results'[j].taskId # execs[e].task
         /\ \A k \in (Len(pushes) + 1)..Len(pushes') :
              pushes'[k][1] # execs[e].task
         /\ Delivered(execs'[e]) = Delivered(execs[e])]_vars

\* forceStop() has unsubscribed from the stream of the first task, and the
\* cancelled execution has emitted an event and closed its stream since.
C39_Witness ==
  /\ isRunning
  /\ Len(execs) = 1
  /\ execs[1].sub = "unsubscribed"
  /\ execs[1].observer = "phase"
  /\ Len(execs[1].channel) > execs[1].subTo
  /\ execs[1].subj = "completed"
  /\ results = <<>>
  /\ pushes = <<<<pendingTasks[1], "in_progress">>>>

\* ------------------------------------------------------------- properties of ClientSpec
\* Call c of operation op reaches one of the positions pcs in this step.
CallReaches(c, op, pcs) ==
  /\ c \in DOMAIN adapter'.calls
  /\ adapter'.calls[c].op = op
  /\ adapter'.calls[c].pc \in pcs
  /\ (c \in DOMAIN adapter.calls => adapter.calls[c].pc \notin pcs)

\* C40: a startClient called while a client exists constructs no client and
\* returns; a startClient that fails leaves client = null and throws; a
\* stopClient destroys the tracked session before it stops the client, and
\* when it ends the client and the session are both null.
C40_ClientLifecycle ==
  [][\A c \in 1..MaxClientCalls :
       /\ (CallReaches(c, "startClient", {"returned", "starting", "threw"})
            /\ adapter'.calls[c].sawClient)
           => (adapter'.calls[c].pc = "returned" /\ ~adapter'.calls[c].created
               /\ client' = client)
       /\ CallReaches(c, "startClient", {"threw"}) => client' = "none"
       /\ CallReaches(c, "stopClient", {"stopping"}) => activeSession' = NoSubscription
       /\ CallReaches(c, "stopClient", {"returned", "threw"})
           => (client' = "none" /\ activeSession' = NoSubscription)]_vars

\* ------------------------------------------------------------- properties of BlockerSpec
\* The number of characters of a line.
RECURSIVE LineLen(_)
LineLen(line) ==
  IF line = <<>> THEN 0
  ELSE IF Len(line) = 1 THEN Len(line[1])
  ELSE Len(line[1]) + 1 + LineLen(Tail(line))

\* r is the trimmed line, cut to at most 200 characters.
IsCutOf(r, line) ==
  /\ LineLen(r) = Min2(200, LineLen(LineTrim(line)))
  /\ Len(r) <= Len(LineTrim(line))
  /\ \A k \in 1..Len(r) :
       r[k] = SubSeq(LineTrim(line)[k], 1, Len(r[k]))
  /\ \A k \in 1..(Len(r) - 1) : r[k] = LineTrim(line)[k]

\* r is the reason of an output: its first matching line, trimmed and cut.
IsReasonOf(r, output) ==
  \E l \in 1..Len(output) :
    /\ LineMatches(output[l])
    /\ \A m \in 1..(l - 1) : ~LineMatches(output[m])
    /\ IsCutOf(r, output[l])

\* The events the orchestrator has received for the task it is at.
TaskEvents(e) == Delivered(execs[e])
Matching(e) == {k \in 1..Len(TaskEvents(e)) : detectBlocker(TaskEvents(e)[k].data)}

\* C30: while the run is subscribed to the output of a task, a blocker is
\* recorded exactly when an event received for the task matches a pattern,
\* and the blockerReason is that of the first such event (its first matching
\* line, trimmed, at most 200 characters), whatever later events of the
\* task hold.
C30_FirstBlockerWins ==
  \A e \in 1..Len(execs) :
    e = currentTaskSubscription =>
      IF Matching(e) = {}
      THEN ~blockerDetected /\ blockerReason = NoReason
      ELSE /\ blockerDetected
           /\ \E k \in Matching(e) :
                /\ \A j \in Matching(e) : k <= j
                /\ IsReasonOf(blockerReason, TaskEvents(e)[k].data)

\* A task has printed two chunks that match, the first with a long line.
C30_Witness ==
  \E e \in 1..Len(execs) :
    /\ e = currentTaskSubscription
    /\ Cardinality(Matching(e)) = 2
    /\ \E k \in Matching(e) : TaskEvents(e)[k].data = ChunkLong
    /\ LineLen(blockerReason) = 200
    /\ ~IsReasonOf(blockerReason, ChunkBlocked)
    /\ \E k \in Matching(e) :
         /\ \A j \in Matching(e) : j <= k
         /\ TaskEvents(e)[k].data = ChunkBlocked

====
